---- MODULE Spec2Model ----
(***************************************************************************)
(* Tessera tile-map editor: the history store (undo/redo with coalescing), *)
(* the layered map store, the brush/eraser/fill tool handler, the          *)
(* selection store and the keyboard handlers that connect them.            *)
(*                                                                         *)
(* A HistoryAction is modelled by its type and its change list; its id (a  *)
(* random UUID) and its timestamp are written by the code and never read.  *)
(* A JavaScript null is a sentinel record of the same shape as the value   *)
(* it stands for (NoAction, NoMap, NoSelection, NoPos).                    *)
(***************************************************************************)
EXTENDS Integers, Sequences, FiniteSets, TLC

VARIABLES
    history,      \* historyStore state: past, future, pendingAction, lastChangeTime
    map,          \* mapStore state: the TileMap, or NoMap
    now,          \* the wall clock read by Date.now()
    tool,         \* toolStore.activeTool, the selected tile, and useToolHandler's refs
    selstore,     \* selectionStore state: selection, drag state, clipboard
    calls,        \* observation: the recordChange calls made since the last other operation
    base,         \* observation: the history before the first of those calls
    strokeStart,  \* observation: the map when the pending action was opened
    lastOp,       \* observation: the last operation performed
    steps         \* number of operations performed (bounded)

vars == <<history, map, now, tool, selstore, calls, base, strokeStart, lastOp, steps>>

----------------------------------------------------------------------------
(* Program constants *)

MAX_HISTORY_SIZE == 100
COALESCE_WINDOW_MS == 50
MIN_SIZE == 8
MAX_SIZE == 256
MAX_LAYERS == 20
MAX_TILE_ID == 65535

----------------------------------------------------------------------------
(* Generic helpers *)

Min(a, b) == IF a < b THEN a ELSE b
Max(a, b) == IF a > b THEN a ELSE b
clamp(value, lo, hi) == Max(lo, Min(hi, value))

Last(s) == s[Len(s)]
Front(s) == SubSeq(s, 1, Len(s) - 1)

----------------------------------------------------------------------------
(* History store: src/src/stores/historyStore.ts *)

NoAction == [type |-> "null", changes |-> <<>>]

EmptyHistory ==
    [past |-> <<>>, future |-> <<>>, pendingAction |-> NoAction, lastChangeTime |-> 0]

TileChange(x, y, layerId, oldTileId, newTileId) ==
    [x |-> x, y |-> y, layerId |-> layerId, oldTileId |-> oldTileId, newTileId |-> newTileId]

SamePosition(c, d) == c.x = d.x /\ c.y = d.y /\ c.layerId = d.layerId

\* the trimming loop as it would be with past.pop() in place of past.shift()
TrimHistory_DropNewest(past) ==
    IF Len(past) > MAX_HISTORY_SIZE
    THEN SubSeq(past, 1, MAX_HISTORY_SIZE)
    ELSE past

\* while (past.length > MAX_HISTORY_SIZE) past.shift()
TrimHistory(past) ==
    IF Len(past) > MAX_HISTORY_SIZE
    THEN SubSeq(past, Len(past) - MAX_HISTORY_SIZE + 1, Len(past))
    ELSE past

HasPending(h) == h.pendingAction # NoAction /\ Len(h.pendingAction.changes) > 0

\* isDuplicate as it would be if repeated positions were never detected
isDuplicate_Never(changes, change) == FALSE

isDuplicate(changes, change) ==
    \E i \in 1..Len(changes) : SamePosition(changes[i], change)

\* recordChange as it would be without "state.lastChangeTime = now" when coalescing
recordChange_StaleClock(h, change, actionType, t) ==
    LET timeDelta == t - h.lastChangeTime IN
    IF /\ h.pendingAction # NoAction
       /\ h.pendingAction.type = actionType
       /\ timeDelta < COALESCE_WINDOW_MS
    THEN [h EXCEPT
            !.pendingAction.changes =
                IF isDuplicate(@, change) THEN @ ELSE Append(@, change)]
    ELSE [past |-> IF HasPending(h)
                   THEN TrimHistory(Append(h.past, h.pendingAction))
                   ELSE h.past,
          future |-> <<>>,
          pendingAction |-> [type |-> actionType, changes |-> <<change>>],
          lastChangeTime |-> t]

\* recordChange as it would be with "timeDelta <= COALESCE_WINDOW_MS"
recordChange_InclusiveWindow(h, change, actionType, t) ==
    LET timeDelta == t - h.lastChangeTime IN
    IF /\ h.pendingAction # NoAction
       /\ h.pendingAction.type = actionType
       /\ timeDelta <= COALESCE_WINDOW_MS
    THEN [h EXCEPT
            !.pendingAction.changes =
                IF isDuplicate(@, change) THEN @ ELSE Append(@, change),
            !.lastChangeTime = t]
    ELSE [past |-> IF HasPending(h)
                   THEN TrimHistory(Append(h.past, h.pendingAction))
                   ELSE h.past,
          future |-> <<>>,
          pendingAction |-> [type |-> actionType, changes |-> <<change>>],
          lastChangeTime |-> t]

\* recordChange as it would be if a repeated position replaced the recorded change
recordChange_LastWriteWins(h, change, actionType, t) ==
    LET timeDelta == t - h.lastChangeTime IN
    IF /\ h.pendingAction # NoAction
       /\ h.pendingAction.type = actionType
       /\ timeDelta < COALESCE_WINDOW_MS
    THEN [h EXCEPT
            !.pendingAction.changes =
                IF isDuplicate(@, change)
                THEN [i \in 1..Len(@) |->
                         IF SamePosition(@[i], change) THEN change ELSE @[i]]
                ELSE Append(@, change),
            !.lastChangeTime = t]
    ELSE [past |-> IF HasPending(h)
                   THEN TrimHistory(Append(h.past, h.pendingAction))
                   ELSE h.past,
          future |-> <<>>,
          pendingAction |-> [type |-> actionType, changes |-> <<change>>],
          lastChangeTime |-> t]

recordChange(h, change, actionType, t) ==
    LET timeDelta == t - h.lastChangeTime IN
    IF /\ h.pendingAction # NoAction
       /\ h.pendingAction.type = actionType
       /\ timeDelta < COALESCE_WINDOW_MS
    THEN [h EXCEPT
            !.pendingAction.changes =
                IF isDuplicate(@, change) THEN @ ELSE Append(@, change),
            !.lastChangeTime = t]
    ELSE [past |-> IF HasPending(h)
                   THEN TrimHistory(Append(h.past, h.pendingAction))
                   ELSE h.past,
          future |-> <<>>,
          pendingAction |-> [type |-> actionType, changes |-> <<change>>],
          lastChangeTime |-> t]

commitPending(h) ==
    IF HasPending(h)
    THEN [h EXCEPT !.past = TrimHistory(Append(h.past, h.pendingAction)),
                   !.pendingAction = NoAction]
    ELSE h

\* pushAction as it would be without "state.future = []"
pushAction_KeepsRedo(h, actionData) ==
    LET flushed == IF HasPending(h) THEN Append(h.past, h.pendingAction) ELSE h.past
        pending == IF HasPending(h) THEN NoAction ELSE h.pendingAction
    IN [h EXCEPT !.past = TrimHistory(Append(flushed, actionData)),
                 !.pendingAction = pending]

\* pushAction as it would be if it discarded the pending action
pushAction_DropsPending(h, actionData) ==
    [h EXCEPT !.past = TrimHistory(Append(h.past, actionData)),
              !.future = <<>>,
              !.pendingAction = NoAction]

pushAction(h, actionData) ==
    LET flushed == IF HasPending(h) THEN Append(h.past, h.pendingAction) ELSE h.past
        pending == IF HasPending(h) THEN NoAction ELSE h.pendingAction
    IN [h EXCEPT !.past = TrimHistory(Append(flushed, actionData)),
                 !.future = <<>>,
                 !.pendingAction = pending]

\* undo() and redo() return the action (NoAction for null) and the new store state
undo(h) ==
    LET c == commitPending(h) IN
    IF Len(c.past) = 0
    THEN [h |-> c, action |-> NoAction]
    ELSE [h |-> [c EXCEPT !.past = Front(c.past),
                          !.future = Append(c.future, Last(c.past))],
          action |-> Last(c.past)]

\* redo as it would be if it left the action on the redo stack
redo_KeepsFuture(h) ==
    IF Len(h.future) = 0
    THEN [h |-> h, action |-> NoAction]
    ELSE [h |-> [h EXCEPT !.past = Append(h.past, Last(h.future))],
          action |-> Last(h.future)]

redo(h) ==
    IF Len(h.future) = 0
    THEN [h |-> h, action |-> NoAction]
    ELSE [h |-> [h EXCEPT !.future = Front(h.future),
                          !.past = Append(h.past, Last(h.future))],
          action |-> Last(h.future)]

canUndo(h) ==
    Len(h.past) > 0 \/ (h.pendingAction # NoAction /\ Len(h.pendingAction.changes) > 0)

canRedo(h) == Len(h.future) > 0

RECURSIVE SumChanges(_)
SumChanges(s) == IF s = <<>> THEN 0 ELSE Len(s[1].changes) + SumChanges(Tail(s))

getStats(h) ==
    [undoLevels |-> Len(h.past) + (IF h.pendingAction # NoAction THEN 1 ELSE 0),
     redoLevels |-> Len(h.future),
     totalChanges |-> SumChanges(h.past) +
                      (IF h.pendingAction # NoAction THEN Len(h.pendingAction.changes) ELSE 0)]

----------------------------------------------------------------------------
(* Map store: src/src/stores/mapStore.ts (the multi-layer store)           *)
(* A layer keeps its id, its lock flag and its tiles; name, visibility and *)
(* opacity do not affect tile contents. map.version (a re-render counter)  *)
(* is not modelled. A layerId of "" stands for an omitted argument.        *)

NoMap == [width |-> 0, height |-> 0, layers |-> <<>>, activeLayerId |-> ""]

createLayer(id, width, height) ==
    [id |-> id, locked |-> FALSE, tiles |-> [i \in 1..(width * height) |-> 0]]

createMap(width, height, id) ==
    LET clampedWidth == clamp(width, MIN_SIZE, MAX_SIZE)
        clampedHeight == clamp(height, MIN_SIZE, MAX_SIZE)
    IN [width |-> clampedWidth, height |-> clampedHeight,
        layers |-> <<createLayer(id, clampedWidth, clampedHeight)>>,
        activeLayerId |-> id]

\* map.layers.find((l) => l.id === layerId): the index of the first match, 0 if none
FindLayer(m, layerId) ==
    LET hits == {i \in 1..Len(m.layers) : m.layers[i].id = layerId}
    IN IF hits = {} THEN 0 ELSE CHOOSE i \in hits : \A j \in hits : i <= j

TargetLayerId(m, layerId) == IF layerId # "" THEN layerId ELSE m.activeLayerId

InBounds(m, x, y) == x >= 0 /\ x < m.width /\ y >= 0 /\ y < m.height

\* Math.max(0, Math.min(65535, tileId)), stored in a Uint16Array
StoredTile(tileId) == Max(0, Min(MAX_TILE_ID, tileId))

\* the cell write as it would be with the index x * width + y
WriteCell_Transposed(m, li, x, y, tileId) ==
    [m EXCEPT !.layers[li].tiles[x * m.width + y + 1] = StoredTile(tileId)]

WriteCell(m, li, x, y, tileId) ==
    [m EXCEPT !.layers[li].tiles[y * m.width + x + 1] = StoredTile(tileId)]

\* setTile as it would be without the "layer.locked" test
setTile_IgnoresLock(m, x, y, tileId, layerId) ==
    IF m = NoMap THEN m
    ELSE LET li == FindLayer(m, TargetLayerId(m, layerId)) IN
         IF li = 0 THEN m
         ELSE IF ~InBounds(m, x, y) THEN m
         ELSE WriteCell(m, li, x, y, tileId)

setTile(m, x, y, tileId, layerId) ==
    IF m = NoMap THEN m
    ELSE LET li == FindLayer(m, TargetLayerId(m, layerId)) IN
         IF li = 0 \/ m.layers[li].locked THEN m
         ELSE IF ~InBounds(m, x, y) THEN m
         ELSE WriteCell(m, li, x, y, tileId)

\* setTileRaw as it would be if it refused locked layers as setTile does
setTileRaw_HonoursLock(m, x, y, tileId, layerId) ==
    IF m = NoMap THEN m
    ELSE IF ~InBounds(m, x, y) THEN m
    ELSE LET li == FindLayer(m, TargetLayerId(m, layerId)) IN
         IF li = 0 \/ m.layers[li].locked THEN m
         ELSE WriteCell(m, li, x, y, tileId)

\* setTileRaw as it would be without the test x >= map.width
setTileRaw_NoRightEdge(m, x, y, tileId, layerId) ==
    IF m = NoMap THEN m
    ELSE IF x < 0 \/ y < 0 \/ y >= m.height THEN m
    ELSE LET li == FindLayer(m, TargetLayerId(m, layerId)) IN
         IF li = 0 THEN m
         ELSE WriteCell(m, li, x, y, tileId)

setTileRaw(m, x, y, tileId, layerId) ==
    IF m = NoMap THEN m
    ELSE IF ~InBounds(m, x, y) THEN m
    ELSE LET li == FindLayer(m, TargetLayerId(m, layerId)) IN
         IF li = 0 THEN m
         ELSE WriteCell(m, li, x, y, tileId)

getTile(m, x, y, layerId) ==
    IF m = NoMap THEN 0
    ELSE LET li == FindLayer(m, TargetLayerId(m, layerId)) IN
         IF li = 0 THEN 0
         ELSE IF ~InBounds(m, x, y) THEN 0
         ELSE m.layers[li].tiles[y * m.width + x + 1]

\* addLayer(): appended at the end (insertIndex omitted) and made active
addLayer(m, id) ==
    IF m = NoMap \/ Len(m.layers) >= MAX_LAYERS THEN m
    ELSE [m EXCEPT !.layers = Append(@, createLayer(id, m.width, m.height)),
                   !.activeLayerId = id]

\* the id addLayer() returns: '' at the ceiling, else the new layer's id
addLayerId(m, id) ==
    IF m = NoMap \/ Len(m.layers) >= MAX_LAYERS THEN "" ELSE id

\* layers.splice(idx, 1) at the 1-based index li
RemoveAt(layers, li) ==
    [i \in 1..(Len(layers) - 1) |-> IF i < li THEN layers[i] ELSE layers[i + 1]]

\* layers.splice(idx + 1, 0, newLayer): newLayer placed right after index li
InsertAfter(layers, li, newLayer) ==
    [i \in 1..(Len(layers) + 1) |->
        IF i <= li THEN layers[i] ELSE IF i = li + 1 THEN newLayer ELSE layers[i - 1]]

\* deleteLayer as it would be if the first layer always became active
deleteLayer_ActivatesFirst(m, layerId) ==
    IF m = NoMap \/ Len(m.layers) <= 1 THEN m
    ELSE LET li == FindLayer(m, layerId) IN
         IF li = 0 THEN m
         ELSE LET rest == RemoveAt(m.layers, li) IN
              [m EXCEPT !.layers = rest,
                        !.activeLayerId = IF @ = layerId THEN rest[1].id ELSE @]

\* deleteLayer as it would be without the "layers.length <= 1" test
deleteLayer_NoFloor(m, layerId) ==
    IF m = NoMap THEN m
    ELSE LET li == FindLayer(m, layerId) IN
         IF li = 0 THEN m
         ELSE LET rest == RemoveAt(m.layers, li) IN
              [m EXCEPT !.layers = rest,
                        !.activeLayerId =
                            IF @ = layerId /\ rest # <<>> THEN rest[Max(1, li - 1)].id ELSE @]

\* the 0-based layers[Math.max(0, idx - 1)] is the 1-based rest[Max(1, li - 1)]
deleteLayer(m, layerId) ==
    IF m = NoMap \/ Len(m.layers) <= 1 THEN m
    ELSE LET li == FindLayer(m, layerId) IN
         IF li = 0 THEN m
         ELSE LET rest == RemoveAt(m.layers, li) IN
              [m EXCEPT !.layers = rest,
                        !.activeLayerId =
                            IF @ = layerId THEN rest[Max(1, li - 1)].id ELSE @]

\* duplicateLayer(layerId): the copy (id: a new UUID) is unlocked, sits right
\* above its source and becomes active
duplicateLayer(m, layerId, id) ==
    IF m = NoMap \/ Len(m.layers) >= MAX_LAYERS THEN m
    ELSE LET li == FindLayer(m, layerId) IN
         IF li = 0 THEN m
         ELSE [m EXCEPT !.layers = InsertAfter(@, li, [id |-> id, locked |-> FALSE,
                                                      tiles |-> m.layers[li].tiles]),
                        !.activeLayerId = id]

\* the id duplicateLayer() returns: '' at the ceiling or without a source
duplicateLayerId(m, layerId, id) ==
    IF m = NoMap \/ Len(m.layers) >= MAX_LAYERS THEN ""
    ELSE IF FindLayer(m, layerId) = 0 THEN "" ELSE id

\* anchor.includes('left'), ('right'), ('top'), ('bottom') over the nine anchors
AnchorIncludes(anchor, word) ==
    CASE word = "left" -> anchor \in {"top-left", "left", "bottom-left"}
      [] word = "right" -> anchor \in {"top-right", "right", "bottom-right"}
      [] word = "top" -> anchor \in {"top-left", "top", "top-right"}
      [] word = "bottom" -> anchor \in {"bottom-left", "bottom", "bottom-right"}

\* the offset of the opposite corner: 'right' and 'bottom' give 0, 'left' and
\* 'top' the difference (a wrong offset, used to test the anchors)
calculateResizeOffset_Opposite(oldWidth, oldHeight, newWidth, newHeight, anchor) ==
    LET dw == newWidth - oldWidth
        dh == newHeight - oldHeight
    IN [x |-> IF AnchorIncludes(anchor, "right") THEN 0
              ELSE IF AnchorIncludes(anchor, "left") THEN dw ELSE dw \div 2,
        y |-> IF AnchorIncludes(anchor, "bottom") THEN 0
              ELSE IF AnchorIncludes(anchor, "top") THEN dh ELSE dh \div 2]

\* Math.floor(d / 2) is d \div 2, for negative d too
calculateResizeOffset(oldWidth, oldHeight, newWidth, newHeight, anchor) ==
    LET dw == newWidth - oldWidth
        dh == newHeight - oldHeight
    IN [x |-> IF AnchorIncludes(anchor, "left") THEN 0
              ELSE IF AnchorIncludes(anchor, "right") THEN dw ELSE dw \div 2,
        y |-> IF AnchorIncludes(anchor, "top") THEN 0
              ELSE IF AnchorIncludes(anchor, "bottom") THEN dh ELSE dh \div 2]

\* { width, height, layers: [{ id, tiles: copy }] }
MapSnapshot(m) ==
    [width |-> m.width, height |-> m.height,
     layers |-> [i \in 1..Len(m.layers) |->
                    [id |-> m.layers[i].id, tiles |-> m.layers[i].tiles]]]

\* a read of a Uint16Array: undefined past its end, stored as 0
ReadTile(tiles, idx) == IF idx \in DOMAIN tiles THEN tiles[idx] ELSE 0

\* the new tile array of one layer: cell (x, y) takes the old cell
\* (x - offset.x, y - offset.y) when that lies in the old map, else 0
ResizeTiles(tiles, oldWidth, oldHeight, newWidth, newHeight, offset) ==
    [i \in 1..(newWidth * newHeight) |->
        LET x == (i - 1) % newWidth
            y == (i - 1) \div newWidth
            srcX == x - offset.x
            srcY == y - offset.y
        IN IF srcX >= 0 /\ srcX < oldWidth /\ srcY >= 0 /\ srcY < oldHeight
           THEN ReadTile(tiles, srcY * oldWidth + srcX + 1)
           ELSE 0]

\* resizeMap's write to the map store
resizeMap(m, newWidth, newHeight, anchor) ==
    IF m = NoMap THEN m
    ELSE LET clampedWidth == clamp(newWidth, MIN_SIZE, MAX_SIZE)
             clampedHeight == clamp(newHeight, MIN_SIZE, MAX_SIZE)
             offset == calculateResizeOffset(m.width, m.height, clampedWidth,
                                             clampedHeight, anchor)
         IN [m EXCEPT !.layers = [i \in 1..Len(m.layers) |->
                                     [m.layers[i] EXCEPT !.tiles =
                                         ResizeTiles(@, m.width, m.height, clampedWidth,
                                                     clampedHeight, offset)]],
                      !.width = clampedWidth,
                      !.height = clampedHeight]

\* the action resizeMap pushes: no changes, the map as it was before
ResizeAction(m) == [type |-> "resize", changes |-> <<>>, snapshot |-> MapSnapshot(m)]

setActiveLayer(m, layerId) ==
    IF m # NoMap /\ FindLayer(m, layerId) # 0
    THEN [m EXCEPT !.activeLayerId = layerId]
    ELSE m

toggleLayerLock(m, layerId) ==
    IF m # NoMap /\ FindLayer(m, layerId) # 0
    THEN [m EXCEPT !.layers[FindLayer(m, layerId)].locked = ~@]
    ELSE m

canEditLayer(m, layerId) ==
    IF m = NoMap THEN FALSE
    ELSE LET li == FindLayer(m, TargetLayerId(m, layerId)) IN
         IF li = 0 THEN FALSE ELSE ~m.layers[li].locked

----------------------------------------------------------------------------
(* Tool algorithms: src/src/tools/brush.ts, src/src/tools/floodFill.ts *)

NoPos == [x |-> -1, y |-> -1]
Pos(x, y) == [x |-> x, y |-> y]

Abs(n) == IF n < 0 THEN -n ELSE n

\* The circle test dist > radius + 0.5, with dist = sqrt((dx+off)^2 + (dy+off)^2)
\* and off = 0 (odd size) or 0.5 (even size), in doubled integer coordinates.
OutsideCircle(dx, dy, radius, isOdd) ==
    LET o == IF isOdd THEN 0 ELSE 1
        ex == 2 * dx + o
        ey == 2 * dy + o
    IN ex * ex + ey * ey > (2 * radius + 1) * (2 * radius + 1)

RECURSIVE BrushLoop(_, _, _, _, _, _, _, _, _)
BrushLoop(dx, dy, radius, centerX, centerY, settings, mapWidth, mapHeight, positions) ==
    IF dy > radius THEN positions
    ELSE IF dx > radius
    THEN BrushLoop(-radius, dy + 1, radius, centerX, centerY, settings,
                   mapWidth, mapHeight, positions)
    ELSE LET x == centerX + dx
             y == centerY + dy
             skip == \/ x < 0 \/ x >= mapWidth \/ y < 0 \/ y >= mapHeight
                     \/ /\ settings.shape = "circle"
                        /\ OutsideCircle(dx, dy, radius, settings.size % 2 = 1)
         IN BrushLoop(dx + 1, dy, radius, centerX, centerY, settings, mapWidth, mapHeight,
                      IF skip THEN positions ELSE Append(positions, Pos(x, y)))

\* the radius is the size instead of half of it (a wrong radius, used to
\* test the brush)
getBrushPositions_FullSize(centerX, centerY, settings, mapWidth, mapHeight) ==
    BrushLoop(-settings.size, -settings.size, settings.size, centerX, centerY, settings,
              mapWidth, mapHeight, <<>>)

getBrushPositions(centerX, centerY, settings, mapWidth, mapHeight) ==
    LET radius == settings.size \div 2
    IN BrushLoop(-radius, -radius, radius, centerX, centerY, settings,
                 mapWidth, mapHeight, <<>>)

RECURSIVE LineLoop(_, _, _, _, _, _, _, _, _, _)
LineLoop(x, y, err, x1, y1, dx, dy, sx, sy, positions) ==
    LET out == Append(positions, Pos(x, y)) IN
    IF x = x1 /\ y = y1 THEN out
    ELSE LET e2 == 2 * err
             stepX == e2 > -dy
             stepY == e2 < dx
             err1 == IF stepX THEN err - dy ELSE err
             err2 == IF stepY THEN err1 + dx ELSE err1
         IN LineLoop(IF stepX THEN x + sx ELSE x, IF stepY THEN y + sy ELSE y, err2,
                     x1, y1, dx, dy, sx, sy, out)

\* the line walked from the end cell to the start cell (a wrong order, used
\* to test the interpolation)
getLinePositions_Backwards(x0, y0, x1, y1) ==
    LET dx == Abs(x1 - x0)
        dy == Abs(y1 - y0)
        sx == IF x1 < x0 THEN 1 ELSE -1
        sy == IF y1 < y0 THEN 1 ELSE -1
    IN LineLoop(x1, y1, dx - dy, x0, y0, dx, dy, sx, sy, <<>>)

getLinePositions(x0, y0, x1, y1) ==
    LET dx == Abs(x1 - x0)
        dy == Abs(y1 - y0)
        sx == IF x0 < x1 THEN 1 ELSE -1
        sy == IF y0 < y1 THEN 1 ELSE -1
    IN LineLoop(x0, y0, dx - dy, x1, y1, dx, dy, sx, sy, <<>>)

FillSpan(x1, x2, y, dy) == [x1 |-> x1, x2 |-> x2, y |-> y, dy |-> dy]

InFilled(filled, x, y) == \E i \in 1..Len(filled) : filled[i] = Pos(x, y)

Matches(m, layerId, targetTileId, filled, x, y) ==
    getTile(m, x, y, layerId) = targetTileId /\ ~InFilled(filled, x, y)

RECURSIVE ScanLoop(_, _, _, _, _, _, _, _, _, _)
ScanLoop(x, rightX, y, dy, spanStart, targetTileId, m, layerId, filled, stack) ==
    IF x > rightX
    THEN IF spanStart >= 0 THEN Append(stack, FillSpan(spanStart, rightX, y, dy)) ELSE stack
    ELSE IF Matches(m, layerId, targetTileId, filled, x, y)
    THEN ScanLoop(x + 1, rightX, y, dy, IF spanStart < 0 THEN x ELSE spanStart,
                  targetTileId, m, layerId, filled, stack)
    ELSE ScanLoop(x + 1, rightX, y, dy, -1, targetTileId, m, layerId, filled,
                  IF spanStart >= 0
                  THEN Append(stack, FillSpan(spanStart, x - 1, y, dy))
                  ELSE stack)

scanLineForSpans(leftX, rightX, y, dy, targetTileId, m, layerId, filled, stack) ==
    IF y < 0 \/ y >= m.height THEN stack
    ELSE ScanLoop(leftX, rightX, y, dy, -1, targetTileId, m, layerId, filled, stack)

\* The two while loops of floodFill: [x |-> where the loop stopped, filled |-> ...]
RECURSIVE ExtendLeft(_, _, _, _, _, _)
ExtendLeft(x, y, targetTileId, m, layerId, filled) ==
    IF x >= 0 /\ Matches(m, layerId, targetTileId, filled, x, y)
    THEN ExtendLeft(x - 1, y, targetTileId, m, layerId, Append(filled, Pos(x, y)))
    ELSE [x |-> x, filled |-> filled]

RECURSIVE ExtendRight(_, _, _, _, _, _)
ExtendRight(x, y, targetTileId, m, layerId, filled) ==
    IF x < m.width /\ Matches(m, layerId, targetTileId, filled, x, y)
    THEN ExtendRight(x + 1, y, targetTileId, m, layerId, Append(filled, Pos(x, y)))
    ELSE [x |-> x, filled |-> filled]

RECURSIVE FillLoop(_, _, _, _, _)
FillLoop(stack, filled, targetTileId, m, layerId) ==
    IF Len(stack) = 0 THEN filled
    ELSE LET span == Last(stack)
             rest == Front(stack)
         IN IF span.y < 0 \/ span.y >= m.height
            THEN FillLoop(rest, filled, targetTileId, m, layerId)
            ELSE LET l == ExtendLeft(span.x1, span.y, targetTileId, m, layerId, filled)
                     leftX == l.x + 1
                     r == ExtendRight(span.x1 + 1, span.y, targetTileId, m, layerId, l.filled)
                     rightX == r.x - 1
                     s1 == scanLineForSpans(leftX, rightX, span.y + span.dy, span.dy,
                                            targetTileId, m, layerId, r.filled, rest)
                     s2 == IF leftX < span.x1
                           THEN scanLineForSpans(leftX, span.x1 - 1, span.y - span.dy,
                                                 -span.dy, targetTileId, m, layerId,
                                                 r.filled, s1)
                           ELSE s1
                     s3 == IF rightX > span.x2
                           THEN scanLineForSpans(span.x2 + 1, rightX, span.y - span.dy,
                                                 -span.dy, targetTileId, m, layerId,
                                                 r.filled, s2)
                           ELSE s2
                 IN IF leftX > rightX
                    THEN FillLoop(rest, r.filled, targetTileId, m, layerId)
                    ELSE FillLoop(s3, r.filled, targetTileId, m, layerId)

\* floodFill(startX, startY, newTileId, (x, y) => getTile(x, y, layerId), width, height)
floodFill(startX, startY, newTileId, m, layerId) ==
    LET targetTileId == getTile(m, startX, startY, layerId) IN
    IF targetTileId = newTileId THEN <<>>
    ELSE FillLoop(<<FillSpan(startX, startX, startY, 1),
                    FillSpan(startX, startX, startY - 1, -1)>>,
                  <<>>, targetTileId, m, layerId)

----------------------------------------------------------------------------
(* Undo/redo replay: src/src/hooks/useHistory.ts:10-131                    *)
(* The action returned by undo()/redo() is read as a plain value, and the  *)
(* redoSnapshot that performUndo stores on it is stored on the action at   *)
(* the top of the redo stack, which is the same object.                    *)

\* action.type === 'resize' && action.snapshot
IsResize(action) == action.type = "resize" /\ "snapshot" \in DOMAIN action

HasRedoSnapshot(action) == action.type = "resize" /\ "redoSnapshot" \in DOMAIN action

\* the layer of the snapshot with the given id: 0 if none
SnapshotLayer(snapshot, id) ==
    LET hits == {j \in 1..Len(snapshot.layers) : snapshot.layers[j].id = id}
    IN IF hits = {} THEN 0 ELSE CHOOSE j \in hits : \A k \in hits : j >= k

\* only the size is restored, the tile arrays are kept (a wrong restore, used
\* to test the undo of a resize)
restoreMapSnapshot_SizeOnly(m, snapshot) ==
    [m EXCEPT !.width = snapshot.width, !.height = snapshot.height]

\* the map after restoreMapSnapshot: the snapshot's size, and the snapshot's
\* tiles in each layer whose id the snapshot knows; the other layers keep
\* their arrays
restoreMapSnapshot(m, snapshot) ==
    [m EXCEPT !.width = snapshot.width,
              !.height = snapshot.height,
              !.layers = [i \in 1..Len(m.layers) |->
                  IF SnapshotLayer(snapshot, m.layers[i].id) = 0
                  THEN m.layers[i]
                  ELSE [m.layers[i] EXCEPT !.tiles =
                           snapshot.layers[SnapshotLayer(snapshot, m.layers[i].id)].tiles]]]

\* The loops over setTileRaw stop at once when there is no map: every
\* further call would return without writing.
RECURSIVE UndoLoop(_, _, _)
UndoLoop(m, changes, i) ==
    IF i < 1 \/ m = NoMap THEN m
    ELSE LET written == setTileRaw(m, changes[i].x, changes[i].y, changes[i].oldTileId,
                                   changes[i].layerId)
         IN IF written = NoMap THEN written ELSE UndoLoop(written, changes, i - 1)

\* a resize action restores its snapshot; any other action runs
\* for (i = changes.length - 1; i >= 0; i--) setTileRaw(x, y, oldTileId, layerId)
applyUndo(m, action) ==
    IF IsResize(action)
    THEN IF m = NoMap THEN m ELSE restoreMapSnapshot(m, action.snapshot)
    ELSE UndoLoop(m, action.changes, Len(action.changes))

RECURSIVE RedoLoop(_, _, _)
RedoLoop(m, changes, i) ==
    IF i > Len(changes) \/ m = NoMap THEN m
    ELSE LET written == setTileRaw(m, changes[i].x, changes[i].y, changes[i].newTileId,
                                   changes[i].layerId)
         IN IF written = NoMap THEN written ELSE RedoLoop(written, changes, i + 1)

\* a resize action with a redoSnapshot restores it; any other action runs
\* for (const change of action.changes) setTileRaw(x, y, newTileId, layerId)
applyRedo(m, action) ==
    IF HasRedoSnapshot(action)
    THEN IF m = NoMap THEN m ELSE restoreMapSnapshot(m, action.redoSnapshot)
    ELSE RedoLoop(m, action.changes, 1)

\* An editor state as the hooks see it: the history store and the map store
Ed(h, m) == [h |-> h, m |-> m]

\* action.redoSnapshot = the map as restoreMapSnapshot found it
WithRedoSnapshot(action, m) ==
    [type |-> action.type, changes |-> action.changes, snapshot |-> action.snapshot,
     redoSnapshot |-> MapSnapshot(m)]

performUndo(e) ==
    LET r == undo(e.h) IN
    IF r.action = NoAction THEN Ed(r.h, e.m)
    ELSE IF IsResize(r.action) /\ e.m # NoMap
    THEN Ed([r.h EXCEPT !.future[Len(r.h.future)] = WithRedoSnapshot(r.action, e.m)],
            applyUndo(e.m, r.action))
    ELSE Ed(r.h, applyUndo(e.m, r.action))

performRedo(e) ==
    LET r == redo(e.h) IN
    Ed(r.h, IF r.action # NoAction THEN applyRedo(e.m, r.action) ELSE e.m)

----------------------------------------------------------------------------
(* Selection store: src/unnamed/part_004 (stores/selectionStore.ts) *)

NoSelection ==
    [bounds |-> [x |-> 0, y |-> 0, width |-> 0, height |-> 0], layerId |-> "",
     tiles |-> <<>>, floating |-> FALSE, offsetX |-> 0, offsetY |-> 0]

NoClipboard == [width |-> 0, height |-> 0, tiles |-> <<>>, sourceLayerId |-> ""]

EmptySelStore ==
    [selection |-> NoSelection, isDragging |-> FALSE, dragStartTile |-> NoPos,
     dragCurrentTile |-> NoPos, clipboard |-> NoClipboard]

\* tiles[dy * width + dx] = getTile(x + dx, y + dy, layerId)
CopyTiles(m, x, y, width, height, layerId) ==
    [i \in 1..(width * height) |->
        getTile(m, x + ((i - 1) % width), y + ((i - 1) \div width), layerId)]

startDrag(ss, x, y) ==
    [ss EXCEPT !.selection = NoSelection, !.isDragging = TRUE,
               !.dragStartTile = Pos(x, y), !.dragCurrentTile = Pos(x, y)]

updateDrag(ss, x, y) ==
    IF ss.isDragging THEN [ss EXCEPT !.dragCurrentTile = Pos(x, y)] ELSE ss

\* endDrag as it would be if it took the drag's first cell as the top-left
\* corner
endDrag_FromStart(ss, m, layerId) ==
    IF ~ss.isDragging \/ ss.dragStartTile = NoPos \/ ss.dragCurrentTile = NoPos
    THEN [ss EXCEPT !.isDragging = FALSE, !.dragStartTile = NoPos,
                    !.dragCurrentTile = NoPos]
    ELSE LET x1 == ss.dragStartTile.x
             y1 == ss.dragStartTile.y
             width == Max(ss.dragStartTile.x, ss.dragCurrentTile.x)
                        - Min(ss.dragStartTile.x, ss.dragCurrentTile.x) + 1
             height == Max(ss.dragStartTile.y, ss.dragCurrentTile.y)
                        - Min(ss.dragStartTile.y, ss.dragCurrentTile.y) + 1
         IN [ss EXCEPT
                !.selection = [bounds |-> [x |-> x1, y |-> y1, width |-> width,
                                           height |-> height],
                               layerId |-> layerId,
                               tiles |-> CopyTiles(m, x1, y1, width, height, layerId),
                               floating |-> FALSE, offsetX |-> 0, offsetY |-> 0],
                !.isDragging = FALSE, !.dragStartTile = NoPos,
                !.dragCurrentTile = NoPos]

endDrag(ss, m, layerId) ==
    IF ~ss.isDragging \/ ss.dragStartTile = NoPos \/ ss.dragCurrentTile = NoPos
    THEN [ss EXCEPT !.isDragging = FALSE, !.dragStartTile = NoPos,
                    !.dragCurrentTile = NoPos]
    ELSE LET x1 == Min(ss.dragStartTile.x, ss.dragCurrentTile.x)
             y1 == Min(ss.dragStartTile.y, ss.dragCurrentTile.y)
             x2 == Max(ss.dragStartTile.x, ss.dragCurrentTile.x)
             y2 == Max(ss.dragStartTile.y, ss.dragCurrentTile.y)
             width == x2 - x1 + 1
             height == y2 - y1 + 1
         IN [ss EXCEPT
                !.selection = [bounds |-> [x |-> x1, y |-> y1, width |-> width,
                                           height |-> height],
                               layerId |-> layerId,
                               tiles |-> CopyTiles(m, x1, y1, width, height, layerId),
                               floating |-> FALSE, offsetX |-> 0, offsetY |-> 0],
                !.isDragging = FALSE, !.dragStartTile = NoPos,
                !.dragCurrentTile = NoPos]

clearSelection(ss) ==
    [ss EXCEPT !.selection = NoSelection, !.isDragging = FALSE,
               !.dragStartTile = NoPos, !.dragCurrentTile = NoPos]

selectAll(ss, mapWidth, mapHeight, m, layerId) ==
    [ss EXCEPT
        !.selection = [bounds |-> [x |-> 0, y |-> 0, width |-> mapWidth,
                                   height |-> mapHeight],
                       layerId |-> layerId,
                       tiles |-> CopyTiles(m, 0, 0, mapWidth, mapHeight, layerId),
                       floating |-> FALSE, offsetX |-> 0, offsetY |-> 0]]

copy(ss) ==
    IF ss.selection = NoSelection THEN ss
    ELSE [ss EXCEPT !.clipboard = [width |-> ss.selection.bounds.width,
                                   height |-> ss.selection.bounds.height,
                                   tiles |-> ss.selection.tiles,
                                   sourceLayerId |-> ss.selection.layerId]]

\* The setTile callback handed to cut and commitSelection: setTileRaw when raw
CallSetTile(raw, m, x, y, tileId, layerId) ==
    IF raw THEN setTileRaw(m, x, y, tileId, layerId) ELSE setTile(m, x, y, tileId, layerId)

\* for dy, for dx: setTile(x + dx, y + dy, 0, layerId), cells numbered row by row
RECURSIVE ClearArea(_, _, _, _, _)
ClearArea(m, raw, b, layerId, i) ==
    IF i >= b.width * b.height \/ m = NoMap THEN m
    ELSE LET written == CallSetTile(raw, m, b.x + (i % b.width), b.y + (i \div b.width),
                                    0, layerId)
         IN IF written = NoMap THEN written ELSE ClearArea(written, raw, b, layerId, i + 1)

\* cut and commitSelection return the selection store and the map they leave
cut(ss, m, raw) ==
    IF ss.selection = NoSelection \/ ss.selection.floating
    THEN [ss |-> ss, m |-> m]
    ELSE [ss |-> [copy(ss) EXCEPT !.selection.floating = TRUE],
          m |-> ClearArea(m, raw, ss.selection.bounds, ss.selection.layerId, 0)]

\* paste as it would be if it used the clipboard up
paste_ClearsClipboard(ss, targetX, targetY) ==
    IF ss.clipboard = NoClipboard THEN ss
    ELSE [ss EXCEPT
            !.selection = [bounds |-> [x |-> targetX, y |-> targetY,
                                       width |-> ss.clipboard.width,
                                       height |-> ss.clipboard.height],
                           layerId |-> ss.clipboard.sourceLayerId,
                           tiles |-> ss.clipboard.tiles,
                           floating |-> TRUE, offsetX |-> 0, offsetY |-> 0],
            !.clipboard = NoClipboard]

paste(ss, targetX, targetY) ==
    IF ss.clipboard = NoClipboard THEN ss
    ELSE [ss EXCEPT
            !.selection = [bounds |-> [x |-> targetX, y |-> targetY,
                                       width |-> ss.clipboard.width,
                                       height |-> ss.clipboard.height],
                           layerId |-> ss.clipboard.sourceLayerId,
                           tiles |-> ss.clipboard.tiles,
                           floating |-> TRUE, offsetX |-> 0, offsetY |-> 0]]

\* moveSelection as it would be with the offsets exchanged
moveSelection_Swapped(ss, dx, dy) ==
    IF ss.selection # NoSelection
    THEN [ss EXCEPT !.selection.offsetX = @ + dy, !.selection.offsetY = @ + dx]
    ELSE ss

moveSelection(ss, dx, dy) ==
    IF ss.selection # NoSelection
    THEN [ss EXCEPT !.selection.offsetX = @ + dx, !.selection.offsetY = @ + dy]
    ELSE ss

RECURSIVE StampTiles(_, _, _, _, _, _)
StampTiles(m, raw, sel, targetX, targetY, i) ==
    IF i >= sel.bounds.width * sel.bounds.height \/ m = NoMap THEN m
    ELSE LET tileId == sel.tiles[i + 1]
             written == IF tileId # 0
                        THEN CallSetTile(raw, m, targetX + (i % sel.bounds.width),
                                         targetY + (i \div sel.bounds.width), tileId,
                                         sel.layerId)
                        ELSE m
         IN IF written = NoMap THEN written
            ELSE StampTiles(written, raw, sel, targetX, targetY, i + 1)

\* commitSelection as it would be if it ignored the offset
commitSelection_AtBounds(ss, m, raw) ==
    IF ss.selection = NoSelection \/ ~ss.selection.floating
    THEN [ss |-> ss, m |-> m]
    ELSE [ss |-> [ss EXCEPT !.selection = NoSelection],
          m |-> StampTiles(m, raw, ss.selection,
                           ss.selection.bounds.x, ss.selection.bounds.y, 0)]

commitSelection(ss, m, raw) ==
    IF ss.selection = NoSelection \/ ~ss.selection.floating
    THEN [ss |-> ss, m |-> m]
    ELSE [ss |-> [ss EXCEPT !.selection = NoSelection],
          m |-> StampTiles(m, raw, ss.selection,
                           ss.selection.bounds.x + ss.selection.offsetX,
                           ss.selection.bounds.y + ss.selection.offsetY, 0)]

hasClipboard(ss) == ss.clipboard # NoClipboard

----------------------------------------------------------------------------
(* Tool handler: useToolHandler in src/src/hooks/useHistory.ts:146-335     *)
(* (the layer-aware handler). A world w holds the stores the handlers      *)
(* touch: w.h history, w.m map, w.ss selection store, w.tool the tool      *)
(* store and the handler's refs.                                           *)

InitialTool ==
    [activeTool |-> "brush", brushSettings |-> [size |-> 1, shape |-> "square"],
     selectedTileId |-> 0,
     isDrawing |-> FALSE, lastPosition |-> NoPos, paintedThisStroke |-> {}]

\* w.log lists the recordChange calls a handler made (observation only)
World(h, m, ss, t) == [h |-> h, m |-> m, ss |-> ss, tool |-> t, log |-> <<>>]

\* tilesetStore.getSelectedGlobalTileId() with one tileset registered and
\* active: its block of global ids starts at 1
getSelectedGlobalTileId(t) == 1 + t.selectedTileId

selectTile(w, localId) == [w EXCEPT !.tool.selectedTileId = localId]

getCurrentLayerId(m) == IF m = NoMap THEN "" ELSE m.activeLayerId

paintTile(w, x, y, tileId, actionType, t) ==
    LET layerId == getCurrentLayerId(w.m) IN
    IF layerId = "" \/ ~canEditLayer(w.m, layerId) THEN w
    ELSE IF <<x, y>> \in w.tool.paintedThisStroke THEN w
    ELSE LET oldTileId == getTile(w.m, x, y, layerId) IN
         IF oldTileId = tileId THEN w
         ELSE [w EXCEPT
                 !.m = setTileRaw(w.m, x, y, tileId, layerId),
                 !.h = recordChange(w.h, TileChange(x, y, layerId, oldTileId, tileId),
                                    actionType, t),
                 !.tool.paintedThisStroke = @ \cup {<<x, y>>},
                 !.log = Append(@, [change |-> TileChange(x, y, layerId, oldTileId, tileId),
                                    type |-> actionType, t |-> t])]

RECURSIVE PaintAll(_, _, _, _, _, _)
PaintAll(w, positions, i, tileId, actionType, t) ==
    IF i > Len(positions) THEN w
    ELSE PaintAll(paintTile(w, positions[i].x, positions[i].y, tileId, actionType, t),
                  positions, i + 1, tileId, actionType, t)

applyBrush(w, pos, tileId, actionType, t) ==
    IF w.m = NoMap \/ ~canEditLayer(w.m, "") THEN w
    ELSE PaintAll(w, getBrushPositions(pos.x, pos.y, w.tool.brushSettings,
                                       w.m.width, w.m.height),
                  1, tileId, actionType, t)

RECURSIVE BrushAll(_, _, _, _, _, _)
BrushAll(w, linePositions, i, tileId, actionType, t) ==
    IF i > Len(linePositions) THEN w
    ELSE BrushAll(applyBrush(w, linePositions[i], tileId, actionType, t),
                  linePositions, i + 1, tileId, actionType, t)

\* filled.map((p) => ({x, y, layerId, oldTileId: getTile(p.x, p.y, layerId), newTileId}))
FillChanges(m, filled, layerId, newTileId) ==
    [i \in 1..Len(filled) |->
        TileChange(filled[i].x, filled[i].y, layerId,
                   getTile(m, filled[i].x, filled[i].y, layerId), newTileId)]

RECURSIVE WriteAll(_, _, _, _, _)
WriteAll(m, filled, i, newTileId, layerId) ==
    IF i > Len(filled) \/ m = NoMap THEN m
    ELSE LET written == setTileRaw(m, filled[i].x, filled[i].y, newTileId, layerId)
         IN IF written = NoMap THEN written
            ELSE WriteAll(written, filled, i + 1, newTileId, layerId)

StartStroke(w, tilePos) ==
    [w EXCEPT !.tool.paintedThisStroke = {}, !.tool.isDrawing = TRUE,
              !.tool.lastPosition = tilePos]

onPointerDown(w, tilePos, selectedTileId, t) ==
    IF w.m = NoMap THEN w
    ELSE IF w.tool.activeTool \in {"brush", "eraser", "fill"} /\ ~canEditLayer(w.m, "")
    THEN w
    ELSE LET layerId == getCurrentLayerId(w.m) IN
         CASE w.tool.activeTool = "brush" ->
                applyBrush(StartStroke(w, tilePos), tilePos, selectedTileId, "brush", t)
           [] w.tool.activeTool = "eraser" ->
                applyBrush(StartStroke(w, tilePos), tilePos, 0, "erase", t)
           [] w.tool.activeTool = "fill" ->
                LET filled == floodFill(tilePos.x, tilePos.y, selectedTileId, w.m, layerId)
                IN IF Len(filled) > 0
                   THEN [w EXCEPT
                           !.m = WriteAll(w.m, filled, 1, selectedTileId, layerId),
                           !.h = pushAction(w.h,
                                    [type |-> "fill",
                                     changes |-> FillChanges(w.m, filled, layerId,
                                                             selectedTileId)])]
                   ELSE w
           [] OTHER -> w

onPointerMove(w, tilePos, selectedTileId, t) ==
    IF ~w.tool.isDrawing \/ w.tool.lastPosition = NoPos \/ w.m = NoMap THEN w
    ELSE IF ~canEditLayer(w.m, "") THEN [w EXCEPT !.tool.isDrawing = FALSE]
    ELSE IF w.tool.activeTool \in {"brush", "eraser"}
    THEN LET isBrush == w.tool.activeTool = "brush"
             painted == BrushAll(w, getLinePositions(w.tool.lastPosition.x,
                                                     w.tool.lastPosition.y,
                                                     tilePos.x, tilePos.y),
                                 1, IF isBrush THEN selectedTileId ELSE 0,
                                 IF isBrush THEN "brush" ELSE "erase", t)
         IN [painted EXCEPT !.tool.lastPosition = tilePos]
    ELSE w

onPointerUp(w) ==
    IF w.tool.isDrawing
    THEN [w EXCEPT !.h = commitPending(w.h), !.tool.isDrawing = FALSE,
                   !.tool.lastPosition = NoPos, !.tool.paintedThisStroke = {}]
    ELSE w

setActiveTool(w, toolName) == [w EXCEPT !.tool.activeTool = toolName]

----------------------------------------------------------------------------
(* Keyboard handler: useEditorKeyboard in                                  *)
(* src/src/hooks/useToolHandler.ts:289-570 (the layer-aware handler)       *)

RECURSIVE CommitChanges(_, _, _, _, _, _)
CommitChanges(m, sel, targetX, targetY, i, changes) ==
    IF i >= sel.bounds.width * sel.bounds.height THEN changes
    ELSE LET newTileId == sel.tiles[i + 1]
             x == targetX + (i % sel.bounds.width)
             y == targetY + (i \div sel.bounds.width)
             oldTileId == getTile(m, x, y, sel.layerId)
         IN CommitChanges(m, sel, targetX, targetY, i + 1,
                          IF newTileId # 0 /\ oldTileId # newTileId
                          THEN Append(changes,
                                      TileChange(x, y, sel.layerId, oldTileId, newTileId))
                          ELSE changes)

\* commitFloatingWithUndo as it would be if the changes it records were
\* computed at the selection's bounds, without its offset
commitFloatingWithUndo_AtBounds(w) ==
    LET sel == w.ss.selection IN
    IF sel = NoSelection \/ ~sel.floating THEN w
    ELSE LET changes == CommitChanges(w.m, sel, sel.bounds.x, sel.bounds.y, 0, <<>>)
             r == commitSelection(w.ss, w.m, TRUE)
         IN [w EXCEPT !.ss = r.ss, !.m = r.m,
                      !.h = IF Len(changes) > 0
                            THEN pushAction(w.h, [type |-> "paste", changes |-> changes])
                            ELSE w.h]

commitFloatingWithUndo(w) ==
    LET sel == w.ss.selection IN
    IF sel = NoSelection \/ ~sel.floating THEN w
    ELSE LET changes == CommitChanges(w.m, sel, sel.bounds.x + sel.offsetX,
                                      sel.bounds.y + sel.offsetY, 0, <<>>)
             r == commitSelection(w.ss, w.m, TRUE)
         IN [w EXCEPT !.ss = r.ss, !.m = r.m,
                      !.h = IF Len(changes) > 0
                            THEN pushAction(w.h, [type |-> "paste", changes |-> changes])
                            ELSE w.h]

\* The change list of the cut and delete keys: every non-empty cell of the bounds
RECURSIVE ClearChanges(_, _, _, _, _)
ClearChanges(m, b, layerId, i, changes) ==
    IF i >= b.width * b.height THEN changes
    ELSE LET x == b.x + (i % b.width)
             y == b.y + (i \div b.width)
             oldTileId == getTile(m, x, y, layerId)
         IN ClearChanges(m, b, layerId, i + 1,
                         IF oldTileId # 0
                         THEN Append(changes, TileChange(x, y, layerId, oldTileId, 0))
                         ELSE changes)

keyUndo(w) ==
    IF canUndo(w.h)
    THEN LET e == performUndo(Ed(w.h, w.m)) IN [w EXCEPT !.h = e.h, !.m = e.m]
    ELSE w

keyRedo(w) ==
    IF canRedo(w.h)
    THEN LET e == performRedo(Ed(w.h, w.m)) IN [w EXCEPT !.h = e.h, !.m = e.m]
    ELSE w

keyCut(w) ==
    LET sel == w.ss.selection IN
    IF sel # NoSelection /\ ~sel.floating
    THEN LET changes == ClearChanges(w.m, sel.bounds, sel.layerId, 0, <<>>)
             r == cut(w.ss, w.m, TRUE)
         IN [w EXCEPT !.ss = r.ss, !.m = r.m,
                      !.h = IF Len(changes) > 0
                            THEN pushAction(w.h, [type |-> "cut", changes |-> changes])
                            ELSE w.h]
    ELSE w

keyPaste(w) ==
    IF hasClipboard(w.ss)
    THEN LET sel == w.ss.selection
             c == IF sel # NoSelection /\ sel.floating THEN commitFloatingWithUndo(w) ELSE w
             pasteX == IF sel # NoSelection THEN sel.bounds.x ELSE 0
             pasteY == IF sel # NoSelection THEN sel.bounds.y ELSE 0
         IN [c EXCEPT !.ss = paste(c.ss, pasteX, pasteY)]
    ELSE w

keySelectAll(w) ==
    IF w.m # NoMap
    THEN LET layerId == IF w.m.activeLayerId # "" THEN w.m.activeLayerId ELSE "default"
         IN [w EXCEPT !.ss = selectAll(w.ss, w.m.width, w.m.height, w.m, layerId)]
    ELSE w

keyEscape(w) ==
    LET sel == w.ss.selection IN
    IF sel # NoSelection /\ sel.floating THEN commitFloatingWithUndo(w)
    ELSE IF sel # NoSelection THEN [w EXCEPT !.ss = clearSelection(w.ss)]
    ELSE w

keyEnter(w) ==
    LET sel == w.ss.selection IN
    IF sel # NoSelection /\ sel.floating THEN commitFloatingWithUndo(w) ELSE w

\* Delete: setTileRaw(x, y, 0, layerId) for the non-empty cells, one erase action
keyDelete(w) ==
    LET sel == w.ss.selection IN
    IF sel # NoSelection /\ ~sel.floating
    THEN LET changes == ClearChanges(w.m, sel.bounds, sel.layerId, 0, <<>>)
         IN [w EXCEPT !.m = applyRedo(w.m, [type |-> "erase", changes |-> changes]),
                      !.h = IF Len(changes) > 0
                            THEN pushAction(w.h, [type |-> "erase", changes |-> changes])
                            ELSE w.h,
                      !.ss = clearSelection(w.ss)]
    ELSE w

keyArrow(w, dx, dy) ==
    LET sel == w.ss.selection IN
    IF sel # NoSelection /\ sel.floating
    THEN [w EXCEPT !.ss = moveSelection(w.ss, dx, dy)]
    ELSE w

keyToggleLock(w) ==
    IF w.m # NoMap /\ w.m.activeLayerId # ""
    THEN [w EXCEPT !.m = toggleLayerLock(w.m, w.m.activeLayerId)]
    ELSE w

\* Alt+[ and Alt+]: make the layer below or above the active one active
keyLayerNav(w, up) ==
    IF w.m # NoMap /\ Len(w.m.layers) > 1 /\ w.m.activeLayerId # ""
    THEN LET currentIndex == FindLayer(w.m, w.m.activeLayerId)
             newIndex == IF up THEN Min(Len(w.m.layers), currentIndex + 1)
                         ELSE Max(1, currentIndex - 1)
         IN IF currentIndex # 0 /\ newIndex # currentIndex
            THEN [w EXCEPT !.m = setActiveLayer(w.m, w.m.layers[newIndex].id)]
            ELSE w
    ELSE w

keyNewLayer(w, id) == [w EXCEPT !.m = addLayer(w.m, id)]

keyTool(w, toolName) == setActiveTool(w, toolName)

----------------------------------------------------------------------------
(* Bounds of the specifications *)

MaxHistSteps == 4      \* store operations per behaviour of SpecHist
MaxStrokeSteps == 4    \* store operations per behaviour of SpecStroke
MaxTicks == 4          \* clock advances per behaviour
MaxPushes == 103       \* pushAction calls per behaviour of SpecPush
MaxMapSteps == 5       \* map store operations per behaviour of SpecMap
MaxSteps == 6          \* pointer and keyboard events per behaviour of Spec
MaxLayerSteps == 3     \* operations other than addLayer per behaviour of SpecLayers
MaxResizeSteps == 4    \* events per behaviour of SpecResize
MaxFillSteps == 4      \* events per behaviour of SpecFill
MaxSelSteps == 6       \* events per behaviour of SpecSel

\* The clock advances by half the coalescing window: one tick apart is inside
\* the window, two ticks apart is exactly the window.
TickMs == COALESCE_WINDOW_MS \div 2

ChangeInputs ==
    {TileChange(0, 0, "L1", 0, 1), TileChange(0, 0, "L1", 1, 2),
     TileChange(1, 0, "L1", 0, 1), TileChange(0, 0, "L2", 0, 1)}

StrokeTypes == {"brush", "erase"}

\* The recordChange calls of SpecStroke: brush changes at three positions, one
\* of them written twice, and an erase
StrokeInputs ==
    {<<change, "brush">> : change \in ChangeInputs}
        \cup {<<TileChange(0, 0, "L1", 1, 0), "erase">>}

PushInputs == {[type |-> "fill", changes |-> <<TileChange(0, 0, "L1", 0, 1)>>]}

Op(name) == [op |-> name, x |-> 0, y |-> 0, v |-> 0, layerId |-> ""]

Call(change, actionType, t) == [change |-> change, type |-> actionType, t |-> t]

----------------------------------------------------------------------------
(* Initial state and the clock, shared by the specifications *)

InitCommon ==
    /\ history = EmptyHistory
    /\ now = 0
    /\ tool = InitialTool
    /\ selstore = EmptySelStore
    /\ calls = <<>>
    /\ base = EmptyHistory
    /\ lastOp = Op("init")
    /\ steps = 0

\* Date.now() advances. Only recordChange reads the clock, and only against
\* lastChangeTime, so advances beyond one window past the last change are
\* not distinguished.
Tick ==
    /\ now < MaxTicks * TickMs
    /\ now - history.lastChangeTime < COALESCE_WINDOW_MS
    /\ now' = now + TickMs
    /\ UNCHANGED <<history, map, tool, selstore, calls, base, strokeStart, lastOp, steps>>

----------------------------------------------------------------------------
(* SpecStroke: strokes recorded through recordChange and closed by         *)
(* commitPending, as the store's tests drive it. calls logs the            *)
(* recordChange calls of the current run (consecutive calls, kept through  *)
(* a closing commitPending) and base is the store before the run's first   *)
(* call.                                                                   *)

InitHist ==
    /\ InitCommon
    /\ map = NoMap
    /\ strokeStart = NoMap

HistFrame == UNCHANGED <<map, now, tool, selstore, strokeStart>>

StrokeRecordChange(change, actionType) ==
    /\ steps < MaxStrokeSteps
    /\ history' = recordChange(history, change, actionType, now)
    /\ calls' = IF lastOp.op = "recordChange"
                THEN Append(calls, Call(change, actionType, now))
                ELSE <<Call(change, actionType, now)>>
    /\ base' = IF lastOp.op = "recordChange" THEN base ELSE history
    /\ lastOp' = Op("recordChange")
    /\ steps' = steps + 1
    /\ HistFrame

StrokeCommitPending ==
    /\ steps < MaxStrokeSteps
    /\ history' = commitPending(history)
    /\ calls' = IF lastOp.op = "recordChange" THEN calls ELSE <<>>
    /\ base' = IF lastOp.op = "recordChange" THEN base ELSE EmptyHistory
    /\ lastOp' = Op("commitPending")
    /\ steps' = steps + 1
    /\ HistFrame

NextStroke ==
    \/ Tick
    \/ \E input \in StrokeInputs : StrokeRecordChange(input[1], input[2])
    \/ StrokeCommitPending

SpecStroke == InitHist /\ [][NextStroke]_vars

\* Call i of the run was made with the type of call i-1 and inside the window
Continues(i) ==
    /\ i > 1
    /\ calls[i].type = calls[i - 1].type
    /\ calls[i].t - calls[i - 1].t < COALESCE_WINDOW_MS

RunChanges == [i \in 1..Len(calls) |-> calls[i].change]

NoRepeat(changes) ==
    \A i, j \in 1..Len(changes) : i # j => ~SamePosition(changes[i], changes[j])

RunClosed == lastOp.op = "commitPending" /\ calls # <<>>

\* C6: k recordChange calls of one action type at k distinct (x,y,layerId)
\* positions, each less than COALESCE_WINDOW_MS after the previous one, then
\* commitPending, yield exactly one new undo level that holds exactly those k
\* changes in recording order.
C6_CoalescedStrokeIsOneLevel ==
    (RunClosed /\ NoRepeat(RunChanges) /\ \A i \in 2..Len(calls) : Continues(i))
        => /\ history.past =
                 Append(base.past, [type |-> calls[1].type, changes |-> RunChanges])
           /\ history.pendingAction = NoAction

\* three coalesced calls whose first and last are a full window apart
C6_Witness ==
    /\ RunClosed
    /\ Len(calls) = 3
    /\ NoRepeat(RunChanges)
    /\ \A i \in 2..Len(calls) : Continues(i)
    /\ calls[3].t - calls[1].t >= COALESCE_WINDOW_MS
    /\ Len(history.past) = Len(base.past) + 1
    /\ Len(Last(history.past).changes) = 3

\* The stroke the latest call belongs to starts at the last call that did
\* not continue its predecessor.
StrokeStartIdx ==
    CHOOSE i \in 1..Len(calls) :
        ~Continues(i) /\ \A j \in (i + 1)..Len(calls) : Continues(j)

StrokeChanges == SubSeq(RunChanges, StrokeStartIdx, Len(calls))

\* The action the latest stroke built: pending, or just committed
BuiltAction ==
    IF lastOp.op = "recordChange" THEN history.pendingAction ELSE Last(history.past)

FirstIdx(stroke, c) ==
    CHOOSE i \in 1..Len(stroke) :
        /\ SamePosition(stroke[i], c)
        /\ \A j \in 1..(i - 1) : ~SamePosition(stroke[j], c)

\* changes holds, for each position of the stroke, the first change recorded
\* there, in recording order
FirstWins(changes, stroke) ==
    /\ NoRepeat(changes)
    /\ \A i \in 1..Len(stroke) : \E k \in 1..Len(changes) : SamePosition(changes[k], stroke[i])
    /\ \A k \in 1..Len(changes) :
          /\ \E i \in 1..Len(stroke) : SamePosition(stroke[i], changes[k])
          /\ changes[k] = stroke[FirstIdx(stroke, changes[k])]
    /\ \A k, l \in 1..Len(changes) :
          k < l => FirstIdx(stroke, changes[k]) < FirstIdx(stroke, changes[l])

\* C7: in every reachable state an action built by recordChange, pending or
\* committed, holds at most one change per (x,y,layerId), and it is the first
\* change recorded for that position in the stroke: later ones are dropped,
\* neither appended nor substituted.
C7_FirstWriteWins ==
    /\ \A i \in 1..Len(history.past) : NoRepeat(history.past[i].changes)
    /\ NoRepeat(history.pendingAction.changes)
    /\ calls # <<>> => FirstWins(BuiltAction.changes, StrokeChanges)

\* a stroke whose third call rewrites the cell of its first with another tile
C7_Witness ==
    /\ lastOp.op = "recordChange"
    /\ Len(calls) = 3
    /\ StrokeStartIdx = 1
    /\ SamePosition(calls[1].change, calls[3].change)
    /\ calls[1].change.newTileId # calls[3].change.newTileId
    /\ ~SamePosition(calls[1].change, calls[2].change)
    /\ history.pendingAction.changes = <<calls[1].change, calls[2].change>>

\* Call i of the run is separated from call i-1: another type, or a full window later
Separated(i) ==
    \/ calls[i].type # calls[i - 1].type
    \/ calls[i].t - calls[i - 1].t >= COALESCE_WINDOW_MS

Single(call) == [type |-> call.type, changes |-> <<call.change>>]

\* C8: n successive recordChange calls, each separated from the previous one
\* by at least COALESCE_WINDOW_MS or carrying another action type, become n
\* actions: after a final commitPending there are exactly n new undo levels
\* with one change each.
C8_SeparatedCallsAreOwnLevels ==
    (RunClosed /\ \A i \in 2..Len(calls) : Separated(i))
        => /\ history.past = base.past \o [i \in 1..Len(calls) |-> Single(calls[i])]
           /\ history.pendingAction = NoAction

\* three calls: the second a full window after the first with the same type,
\* the third inside the window with another type
C8_Witness ==
    /\ RunClosed
    /\ Len(calls) = 3
    /\ calls[2].type = calls[1].type
    /\ calls[2].t - calls[1].t = COALESCE_WINDOW_MS
    /\ calls[3].type # calls[2].type
    /\ calls[3].t - calls[2].t < COALESCE_WINDOW_MS
    /\ Len(history.past) = Len(base.past) + 3

----------------------------------------------------------------------------
(* SpecHist: every operation of the history store, in any order *)

\* What the claims call "a recordChange call that opens a new pending action":
\* there is no pending action, or its type differs, or the window has passed.
OpensNewAction(h, actionType, t) ==
    \/ h.pendingAction = NoAction
    \/ h.pendingAction.type # actionType
    \/ t - h.lastChangeTime >= COALESCE_WINDOW_MS

\* lastOp of a store operation: x = 1 when it opened a pending action,
\* v = the depth of the redo stack before it
HistOp(name, opened, redoBefore) ==
    [op |-> name, x |-> IF opened THEN 1 ELSE 0, y |-> 0, v |-> redoBefore, layerId |-> ""]

HistStep(h, name, opened) ==
    /\ steps < MaxHistSteps
    /\ history' = h
    /\ lastOp' = HistOp(name, opened, Len(history.future))
    /\ steps' = steps + 1
    /\ UNCHANGED <<calls, base>>
    /\ HistFrame

HistRecordChange(change, actionType) ==
    HistStep(recordChange(history, change, actionType, now), "recordChange",
             OpensNewAction(history, actionType, now))

HistCommitPending == HistStep(commitPending(history), "commitPending", FALSE)

HistPushAction(actionData) ==
    HistStep(pushAction(history, actionData), "pushAction", FALSE)

HistUndo == HistStep(undo(history).h, "undo", FALSE)

HistRedo == HistStep(redo(history).h, "redo", FALSE)

NextHist ==
    \/ Tick
    \/ \E change \in ChangeInputs, actionType \in StrokeTypes :
          HistRecordChange(change, actionType)
    \/ HistCommitPending
    \/ \E actionData \in PushInputs : HistPushAction(actionData)
    \/ HistUndo
    \/ HistRedo

SpecHist == InitHist /\ [][NextHist]_vars

\* C3: immediately after pushAction, and immediately after a recordChange call
\* that opens a new pending action, the redo stack is empty (canRedo() is
\* false), however many undos came before.
C3_NewActionClearsRedo ==
    (lastOp.op = "pushAction" \/ (lastOp.op = "recordChange" /\ lastOp.x = 1))
        => history.future = <<>> /\ ~canRedo(history)

\* pushAction has just run on a store that had an undone action to redo
C3_Witness ==
    /\ lastOp.op = "pushAction"
    /\ lastOp.v > 0
    /\ history.future = <<>>

----------------------------------------------------------------------------
(* SpecPush: n distinct actions pushed onto an empty history, then undone   *)
(* while canUndo(), as the store's tests "should support 50+ undo levels"   *)
(* and "should limit history to MAX_HISTORY_SIZE" do. steps counts the      *)
(* pushes; lastOp.v counts the undos that returned an action and lastOp.x   *)
(* is the x of the action the last undo returned.                           *)

\* the action pushed by iteration i of the tests' loop (i = 0, 1, ...)
PushedAction(i) == [type |-> "brush", changes |-> <<TileChange(i, 0, "default", 0, i + 1)>>]

PushNext ==
    /\ lastOp.op # "undo"
    /\ steps < MaxPushes
    /\ history' = pushAction(history, PushedAction(steps))
    /\ lastOp' = Op("pushAction")
    /\ steps' = steps + 1
    /\ UNCHANGED <<calls, base>>
    /\ HistFrame

\* while (store.canUndo()) { store.undo(); undoCount++ }
PushUndo ==
    /\ canUndo(history)
    /\ LET r == undo(history) IN
         /\ history' = r.h
         /\ lastOp' = [Op("undo") EXCEPT
                          !.v = lastOp.v + (IF r.action # NoAction THEN 1 ELSE 0),
                          !.x = IF r.action # NoAction THEN r.action.changes[1].x ELSE -1]
    /\ UNCHANGED <<steps, calls, base>>
    /\ HistFrame

NextPush == PushNext \/ PushUndo

SpecPush == InitHist /\ [][NextPush]_vars

Retained(n) == Min(n, MAX_HISTORY_SIZE)

\* C4: after n distinct actions are pushed with pushAction onto an empty
\* history there are exactly min(n, 100) undo levels, the retained actions are
\* the most recent min(n, 100) in their original order, and exactly
\* min(n, 100) undos succeed, newest action first.
C4_PushKeepsMostRecent ==
    /\ lastOp.op # "undo" =>
          /\ getStats(history).undoLevels = Retained(steps)
          /\ history.past =
                [k \in 1..Retained(steps) |-> PushedAction(steps - Retained(steps) + k - 1)]
    /\ lastOp.op = "undo" =>
          /\ lastOp.x = steps - lastOp.v
          /\ lastOp.v <= Retained(steps)
          /\ ~canUndo(history) => lastOp.v = Retained(steps)

\* more than MAX_HISTORY_SIZE actions were pushed and all retained ones undone
C4_Witness ==
    /\ lastOp.op = "undo"
    /\ steps > MAX_HISTORY_SIZE
    /\ ~canUndo(history)
    /\ lastOp.v = MAX_HISTORY_SIZE
    /\ Len(history.future) = MAX_HISTORY_SIZE

----------------------------------------------------------------------------
(* SpecCap: the history store's operations in any order and without a bound *)
(* on their number, with one change and one action as the only inputs so    *)
(* that the stacks' depths are all that varies.                             *)

CapChange == TileChange(0, 0, "L1", 0, 1)

CapStep(h, name) ==
    /\ history' = h
    /\ lastOp' = Op(name)
    /\ UNCHANGED <<steps, calls, base>>
    /\ HistFrame

CapRecordChange == CapStep(recordChange(history, CapChange, "brush", now), "recordChange")

CapCommitPending == CapStep(commitPending(history), "commitPending")

CapPushAction ==
    CapStep(pushAction(history, [type |-> "brush", changes |-> <<CapChange>>]), "pushAction")

CapUndo == CapStep(undo(history).h, "undo")

CapRedo == CapStep(redo(history).h, "redo")

NextCap ==
    \/ CapRecordChange
    \/ CapCommitPending
    \/ CapPushAction
    \/ CapUndo
    \/ CapRedo

SpecCap == InitHist /\ [][NextCap]_vars

\* C5: in every reachable state of the history store, under any interleaving
\* of recordChange, commitPending, pushAction, undo and redo, getStats()
\* reports at most MAX_HISTORY_SIZE undo levels.
C5_UndoLevelsWithinCap == getStats(history).undoLevels <= MAX_HISTORY_SIZE

----------------------------------------------------------------------------
(* SpecMap: the map store's tile and layer operations in any order.         *)
(* strokeStart keeps the map as it was before the last operation.           *)

\* a map of the minimum size: in-bounds corners, and positions just outside
MapPositions ==
    {Pos(0, 0), Pos(1, 0), Pos(MIN_SIZE - 1, MIN_SIZE - 1), Pos(MIN_SIZE, 0), Pos(0, -1)}

\* tile ids below, inside and above the stored range
MapTileIds == {-1, 5, MAX_TILE_ID + 1}

\* "" is the omitted argument, "L9" no layer of the map
MapLayerArgs == {"", "L2", "L9"}

MapStep(m, op) ==
    /\ steps < MaxMapSteps
    /\ map' = m
    /\ strokeStart' = map
    /\ lastOp' = op
    /\ steps' = steps + 1
    /\ UNCHANGED <<history, now, tool, selstore, calls, base>>

MapCreateMap ==
    /\ map = NoMap
    /\ \E size \in {1, MIN_SIZE} : MapStep(createMap(size, size, "L1"), Op("createMap"))

MapAddLayer ==
    /\ map # NoMap
    /\ FindLayer(map, "L2") = 0
    /\ MapStep(addLayer(map, "L2"), Op("addLayer"))

MapSetActiveLayer(layerId) ==
    MapStep(setActiveLayer(map, layerId), [Op("setActiveLayer") EXCEPT !.layerId = layerId])

MapToggleLayerLock(layerId) ==
    MapStep(toggleLayerLock(map, layerId), [Op("toggleLayerLock") EXCEPT !.layerId = layerId])

TileOp(name, pos, tileId, layerId) ==
    [op |-> name, x |-> pos.x, y |-> pos.y, v |-> tileId, layerId |-> layerId]

MapSetTile(pos, tileId, layerId) ==
    MapStep(setTile(map, pos.x, pos.y, tileId, layerId), TileOp("setTile", pos, tileId, layerId))

MapSetTileRaw(pos, tileId, layerId) ==
    MapStep(setTileRaw(map, pos.x, pos.y, tileId, layerId),
            TileOp("setTileRaw", pos, tileId, layerId))

NextMap ==
    \/ MapCreateMap
    \/ MapAddLayer
    \/ \E layerId \in {"L1", "L2"} : MapSetActiveLayer(layerId)
    \/ \E layerId \in {"L1", "L2"} : MapToggleLayerLock(layerId)
    \/ \E pos \in MapPositions, tileId \in MapTileIds, layerId \in MapLayerArgs :
          MapSetTile(pos, tileId, layerId)
    \/ \E pos \in MapPositions, tileId \in MapTileIds, layerId \in MapLayerArgs :
          MapSetTileRaw(pos, tileId, layerId)

SpecMap == InitHist /\ [][NextMap]_vars

\* the layer a tile operation addressed, looked up in the map m: 0 if none
OpLayer(m) ==
    IF m = NoMap THEN 0
    ELSE FindLayer(m, IF lastOp.layerId = "" THEN m.activeLayerId ELSE lastOp.layerId)

OpInBounds(m) ==
    m # NoMap /\ 0 <= lastOp.x /\ lastOp.x < m.width /\ 0 <= lastOp.y /\ lastOp.y < m.height

ClampedTileId(v) == IF v < 0 THEN 0 ELSE IF v > 65535 THEN 65535 ELSE v

\* C10: setTile on a locked layer never changes any stored tile, while
\* setTileRaw with in-bounds coordinates and an existing layer always stores
\* the clamped value, whatever the layer's lock state.
C10_LockStopsSetTileOnly ==
    /\ (lastOp.op = "setTile" /\ OpLayer(strokeStart) # 0
            /\ strokeStart.layers[OpLayer(strokeStart)].locked)
          => map = strokeStart
    /\ (lastOp.op = "setTileRaw" /\ OpLayer(strokeStart) # 0 /\ OpInBounds(strokeStart))
          => map.layers[OpLayer(strokeStart)].tiles[lastOp.y * map.width + lastOp.x + 1]
                 = ClampedTileId(lastOp.v)

\* setTileRaw has written an out-of-range tile id into a locked layer that
\* setTile left alone
C10_Witness ==
    /\ lastOp.op = "setTileRaw"
    /\ OpLayer(strokeStart) # 0
    /\ OpInBounds(strokeStart)
    /\ strokeStart.layers[OpLayer(strokeStart)].locked
    /\ lastOp.v > MAX_TILE_ID
    /\ getTile(map, lastOp.x, lastOp.y, lastOp.layerId) = MAX_TILE_ID
    /\ getTile(strokeStart, lastOp.x, lastOp.y, lastOp.layerId) = 0
    /\ setTile(strokeStart, lastOp.x, lastOp.y, lastOp.v, lastOp.layerId) = strokeStart

\* the cells of m, as <<layer index, tile index>>
Cells(m) ==
    IF m = NoMap THEN {}
    ELSE {<<li, idx>> : li \in 1..Len(m.layers), idx \in 1..(m.width * m.height)}

\* m and n have the same size, layers and tiles, except possibly in the cells of exempt
SameExcept(m, n, exempt) ==
    /\ m.width = n.width /\ m.height = n.height
    /\ m.activeLayerId = n.activeLayerId
    /\ Len(m.layers) = Len(n.layers)
    /\ \A li \in 1..Len(m.layers) :
          /\ m.layers[li].id = n.layers[li].id
          /\ m.layers[li].locked = n.layers[li].locked
          /\ DOMAIN m.layers[li].tiles = DOMAIN n.layers[li].tiles
    /\ \A c \in Cells(m) \ exempt : m.layers[c[1]].tiles[c[2]] = n.layers[c[1]].tiles[c[2]]

\* the cell a tile operation addressed
OpCell(m) == <<OpLayer(m), lastOp.y * m.width + lastOp.x + 1>>

OpUnlocked(m) == OpLayer(m) # 0 /\ ~m.layers[OpLayer(m)].locked

\* C11: for every in-bounds (x,y), every unlocked existing layer and every
\* integer v, getTile(x,y,layer) immediately after setTile(x,y,v,layer)
\* returns clamp(v,0,65535), and no other cell of any layer changes.
C11_SetTileWritesOneCell ==
    (lastOp.op = "setTile" /\ OpInBounds(strokeStart) /\ OpUnlocked(strokeStart))
        => /\ getTile(map, lastOp.x, lastOp.y, lastOp.layerId) = ClampedTileId(lastOp.v)
           /\ SameExcept(map, strokeStart, {OpCell(strokeStart)})

\* setTile has written a cell off the diagonal in the second of two layers,
\* whose first layer holds a tile
C11_Witness ==
    /\ lastOp.op = "setTile"
    /\ OpInBounds(strokeStart)
    /\ OpUnlocked(strokeStart)
    /\ lastOp.x # lastOp.y
    /\ OpLayer(strokeStart) = 2
    /\ map # strokeStart
    /\ getTile(map, lastOp.x, lastOp.y, lastOp.layerId) = ClampedTileId(lastOp.v)
    /\ \E idx \in 1..(map.width * map.height) : map.layers[1].tiles[idx] # 0

\* C28: fail-soft reads and writes: getTile returns 0 when there is no map,
\* the layer id is unknown or the coordinates are out of bounds; setTile and
\* setTileRaw with out-of-bounds coordinates, an unknown layer id or no map
\* leave the entire map state unchanged.
C28_FailSoft ==
    /\ \A pos \in MapPositions, layerId \in MapLayerArgs :
          (\/ map = NoMap
           \/ FindLayer(map, IF layerId = "" THEN map.activeLayerId ELSE layerId) = 0
           \/ pos.x < 0 \/ pos.x >= map.width \/ pos.y < 0 \/ pos.y >= map.height)
              => getTile(map, pos.x, pos.y, layerId) = 0
    /\ (/\ lastOp.op \in {"setTile", "setTileRaw"}
        /\ \/ strokeStart = NoMap
           \/ OpLayer(strokeStart) = 0
           \/ ~OpInBounds(strokeStart))
          => map = strokeStart

\* a map with a stored tile, on which setTileRaw was then called for the
\* cell right of the first row's end: the map is as before, and the cell
\* reads as 0
C28_Witness ==
    /\ lastOp.op = "setTileRaw"
    /\ lastOp.x = MIN_SIZE
    /\ lastOp.y = 0
    /\ lastOp.v = 5
    /\ OpLayer(strokeStart) # 0
    /\ map = strokeStart
    /\ getTile(map, 0, 0, lastOp.layerId) = 5
    /\ getTile(map, MIN_SIZE, 0, lastOp.layerId) = 0

----------------------------------------------------------------------------
(* SpecLayers: the layer panel's operations on a map of the minimum size.   *)
(* addLayer is taken any number of times, so that the map fills up to its   *)
(* ceiling; the other operations are taken at most MaxLayerSteps times in   *)
(* all, anywhere in between. A new layer's id (crypto.randomUUID()) is the  *)
(* first name of LayerIds that no layer of the map carries. lastOp keeps    *)
(* the operation's argument in layerId and the id it returned in v;         *)
(* strokeStart keeps the map as it was before the operation.                *)

\* one name more than a map can hold layers
LayerIds ==
    <<"L1", "L2", "L3", "L4", "L5", "L6", "L7", "L8", "L9", "L10", "L11",
      "L12", "L13", "L14", "L15", "L16", "L17", "L18", "L19", "L20", "L21">>

UsedIds(m) == IF m = NoMap THEN {} ELSE {m.layers[i].id : i \in 1..Len(m.layers)}

FreshId(m) ==
    LayerIds[CHOOSE i \in 1..Len(LayerIds) :
                /\ LayerIds[i] \notin UsedIds(m)
                /\ \A j \in 1..(i - 1) : LayerIds[j] \in UsedIds(m)]

\* the layers an operation is aimed at: the active one, the bottom one, and
\* "L0", the id of no layer
LayerArgs(m) == {m.activeLayerId, m.layers[1].id, "L0"}

LayerStep(m, name, layerId, returned, cost) ==
    /\ steps + cost <= MaxLayerSteps
    /\ map' = m
    /\ strokeStart' = map
    /\ lastOp' = [Op(name) EXCEPT !.layerId = layerId, !.v = returned]
    /\ steps' = steps + cost
    /\ UNCHANGED <<history, now, tool, selstore, calls, base>>

LayersCreateMap ==
    LayerStep(createMap(MIN_SIZE, MIN_SIZE, FreshId(map)), "createMap", "", "", 1)

LayersAddLayer ==
    /\ map # NoMap
    /\ LayerStep(addLayer(map, FreshId(map)), "addLayer", "", addLayerId(map, FreshId(map)), 0)

LayersDuplicateLayer ==
    /\ map # NoMap
    /\ \E layerId \in LayerArgs(map) :
          LayerStep(duplicateLayer(map, layerId, FreshId(map)), "duplicateLayer", layerId,
                    duplicateLayerId(map, layerId, FreshId(map)), 1)

LayersDeleteLayer ==
    /\ map # NoMap
    /\ \E layerId \in LayerArgs(map) :
          LayerStep(deleteLayer(map, layerId), "deleteLayer", layerId, "", 1)

LayersSetActiveLayer ==
    /\ map # NoMap
    /\ \E layerId \in LayerArgs(map) :
          LayerStep(setActiveLayer(map, layerId), "setActiveLayer", layerId, "", 1)

NextLayers ==
    \/ LayersCreateMap
    \/ LayersAddLayer
    \/ LayersDuplicateLayer
    \/ LayersDeleteLayer
    \/ LayersSetActiveLayer

SpecLayers == InitHist /\ [][NextLayers]_vars

\* C12: while a map exists it has at least one layer and at most MAX_LAYERS
\* layers; addLayer and duplicateLayer called on a map that already has
\* MAX_LAYERS layers return the empty id and leave the map as it was; and
\* deleteLayer called on a map with a single layer leaves the map as it was.
C12_LayerCountBounded ==
    /\ map # NoMap => (Len(map.layers) >= 1 /\ Len(map.layers) <= MAX_LAYERS)
    /\ (lastOp.op \in {"addLayer", "duplicateLayer"} /\ Len(strokeStart.layers) = MAX_LAYERS)
           => (lastOp.v = "" /\ map = strokeStart)
    /\ (lastOp.op = "deleteLayer" /\ Len(strokeStart.layers) = 1) => map = strokeStart

\* a full map on which the duplication of its active layer was refused
C12_Witness ==
    /\ lastOp.op = "duplicateLayer"
    /\ Len(strokeStart.layers) = MAX_LAYERS
    /\ lastOp.layerId = strokeStart.activeLayerId
    /\ lastOp.v = ""
    /\ Len(map.layers) = MAX_LAYERS

\* the position in the map before the operation of the layer it was aimed at
ArgIdx == FindLayer(strokeStart, lastOp.layerId)

\* the ids of the layers next to position li in the map m
AdjacentIds(m, li) ==
    {m.layers[i].id : i \in {li - 1, li + 1} \cap (1..Len(m.layers))}

DeletedOne == lastOp.op = "deleteLayer" /\ Len(map.layers) = Len(strokeStart.layers) - 1

\* C13: activeLayerId is always the id of a layer of the map; deleting the
\* active layer makes a layer that was next to it active; deleting another
\* layer leaves the active layer as it was.
C13_ActiveLayerInList ==
    /\ map # NoMap => FindLayer(map, map.activeLayerId) # 0
    /\ (DeletedOne /\ lastOp.layerId = strokeStart.activeLayerId)
           => map.activeLayerId \in AdjacentIds(strokeStart, ArgIdx)
    /\ (DeletedOne /\ lastOp.layerId # strokeStart.activeLayerId)
           => map.activeLayerId = strokeStart.activeLayerId

\* the active layer, between two others, was deleted and the one below it
\* became active
C13_Witness ==
    /\ DeletedOne
    /\ lastOp.layerId = strokeStart.activeLayerId
    /\ ArgIdx > 1
    /\ ArgIdx < Len(strokeStart.layers)
    /\ map.activeLayerId = strokeStart.layers[ArgIdx - 1].id
    /\ FindLayer(map, lastOp.layerId) = 0

----------------------------------------------------------------------------
(* Spec: the editor. Pointer events reach the tool handler, keys reach the  *)
(* keyboard handler, the tileset panel changes the selected tile, and the   *)
(* clock advances, in any order: the handlers accept every event sequence.  *)
(* Observation: calls lists the recordChange calls of the latest stroke     *)
(* (the calls since the last one that opened a pending action) while that   *)
(* stroke is the most recent action, strokeStart is the map as it was when  *)
(* the stroke's action was opened, and base is the history store as it was  *)
(* before the last undo.                                                    *)

\* tile positions the pointer reports (Canvas.screenToTile yields in-bounds tiles only)
PointerPositions == {Pos(0, 0), Pos(1, 0)}

\* local tile ids the tileset panel can select
TileChoices == {0, 1}

ToolChoices == {"brush", "eraser", "fill", "select"}

Init ==
    /\ InitCommon
    /\ map = createMap(MIN_SIZE, MIN_SIZE, "L1")
    /\ strokeStart = NoMap

TheWorld == World(history, map, selstore, tool)

\* the handler opened a pending action with its first recordChange call
Opened(w) == w.log # <<>> /\ OpensNewAction(history, w.log[1].type, now)

StrokeLog(w, name) ==
    IF Opened(w) THEN w.log
    ELSE IF \/ lastOp.op = "undo"
            \/ name = "redo"
            \/ (name = "pointerDown" /\ w.log = <<>> /\ w.h # history)   \* a fill was pushed
    THEN <<>>
    ELSE calls \o w.log

EdStep(w, name) ==
    /\ steps < MaxSteps
    /\ history' = w.h
    /\ map' = w.m
    /\ tool' = w.tool
    /\ selstore' = w.ss
    /\ calls' = StrokeLog(w, name)
    /\ strokeStart' = IF Opened(w) THEN map
                       ELSE IF StrokeLog(w, name) = <<>> THEN NoMap ELSE strokeStart
    /\ base' = IF name = "undo" THEN history ELSE EmptyHistory
    /\ lastOp' = Op(name)
    /\ steps' = steps + 1
    /\ UNCHANGED now

PointerDown(tilePos) ==
    EdStep(onPointerDown(TheWorld, tilePos, getSelectedGlobalTileId(tool), now), "pointerDown")

PointerMove(tilePos) ==
    EdStep(onPointerMove(TheWorld, tilePos, getSelectedGlobalTileId(tool), now), "pointerMove")

\* pointerup and pointerleave both call onPointerUp
PointerUp == EdStep(onPointerUp(TheWorld), "pointerUp")

SelectTile(localId) ==
    /\ localId # tool.selectedTileId
    /\ EdStep(selectTile(TheWorld, localId), "selectTile")

KeyTool(toolName) ==
    /\ toolName # tool.activeTool
    /\ EdStep(keyTool(TheWorld, toolName), "setActiveTool")

KeyToggleLock == EdStep(keyToggleLock(TheWorld), "toggleLock")

KeyUndo ==
    /\ canUndo(history)
    /\ EdStep(keyUndo(TheWorld), "undo")

KeyRedo ==
    /\ canRedo(history)
    /\ EdStep(keyRedo(TheWorld), "redo")

\* time passes between events; it counts as a step of the behaviour
EdTick ==
    /\ steps < MaxSteps
    /\ now - history.lastChangeTime < COALESCE_WINDOW_MS
    /\ now' = now + TickMs
    /\ steps' = steps + 1
    /\ UNCHANGED <<history, map, tool, selstore, calls, base, strokeStart, lastOp>>

Next ==
    \/ \E tilePos \in PointerPositions : PointerDown(tilePos)
    \/ \E tilePos \in PointerPositions : PointerMove(tilePos)
    \/ PointerUp
    \/ \E localId \in TileChoices : SelectTile(localId)
    \/ \E toolName \in ToolChoices : KeyTool(toolName)
    \/ KeyToggleLock
    \/ KeyUndo
    \/ KeyRedo
    \/ EdTick

Spec == Init /\ [][Next]_vars

\* C1: after any sequence of edits made through the handlers, performUndo
\* immediately followed by performRedo leaves every cell of every layer
\* holding the tile value it held before the undo.
C1_UndoRedoRoundTrip ==
    canUndo(history) => performRedo(performUndo(Ed(history, map))).m = map

\* the action the last undo took: the pending action if there was one,
\* otherwise the top of the undo stack
Undone == IF HasPending(base) THEN base.pendingAction ELSE Last(base.past)

\* C2: when a stroke recorded with recordChange, in which a cell may have
\* been written several times, is undone with performUndo, every cell the
\* stroke touched holds the value it had before the stroke began, and the
\* stroke's action has moved from the undo stack to the redo stack.
C2_UndoRestoresStrokeStart ==
    (lastOp.op = "undo" /\ calls # <<>>)
        => /\ \A i \in 1..Len(calls) :
                 LET c == calls[i].change
                 IN getTile(map, c.x, c.y, c.layerId) = getTile(strokeStart, c.x, c.y, c.layerId)
           /\ history.pendingAction = NoAction
           /\ history.past = (IF HasPending(base) THEN base.past ELSE Front(base.past))
           /\ history.future = Append(base.future, Undone)

\* the undone stroke wrote one cell twice, with different tiles
C2_Witness ==
    /\ lastOp.op = "undo"
    /\ Len(calls) = 2
    /\ SamePosition(calls[1].change, calls[2].change)
    /\ calls[1].change.newTileId # calls[2].change.newTileId
    /\ Len(Undone.changes) = 1
    /\ getTile(map, calls[1].change.x, calls[1].change.y, calls[1].change.layerId)
           = calls[1].change.oldTileId
    /\ Last(history.future) = Undone

\* C9: after every pointer-up or pointer-leave event handled by the tool
\* handler no pending action remains, whatever the active tool and whatever
\* tool switches or layer-lock changes happened during the stroke.
C9_PointerUpClosesStroke ==
    lastOp.op = "pointerUp" => history.pendingAction = NoAction

----------------------------------------------------------------------------
(* SpecResize: the editor with the operations that change the shape of the  *)
(* map. The brush paints cell (0,0); the map is resized, replaced, and its   *)
(* layers are added, duplicated and deleted; Ctrl+Z and Ctrl+Y run           *)
(* performUndo and performRedo; in any order. Observation: base and         *)
(* strokeStart are the history store and the map as they were before the    *)
(* last event.                                                              *)

\* resizeMap arguments: a wider map, a wider and higher one, and a size
\* below the minimum
ResizeInputs ==
    {[width |-> MIN_SIZE + 1, height |-> MIN_SIZE, anchor |-> "top-left"],
     [width |-> MIN_SIZE + 1, height |-> MIN_SIZE + 1, anchor |-> "bottom-right"],
     [width |-> 1, height |-> 1, anchor |-> "center"]}

InitResize ==
    /\ InitCommon
    /\ map = createMap(MIN_SIZE, MIN_SIZE, "L1")
    /\ strokeStart = NoMap

ResizeStep(w, name) ==
    /\ steps < MaxResizeSteps
    /\ history' = w.h
    /\ map' = w.m
    /\ tool' = w.tool
    /\ selstore' = w.ss
    /\ lastOp' = Op(name)
    /\ steps' = steps + 1
    /\ base' = history
    /\ strokeStart' = map
    /\ UNCHANGED <<now, calls>>

ResizePointerDown ==
    ResizeStep(onPointerDown(TheWorld, Pos(0, 0), getSelectedGlobalTileId(tool), now),
               "pointerDown")

ResizePointerUp == ResizeStep(onPointerUp(TheWorld), "pointerUp")

\* resizeMap writes the map, then pushes the resize action
ResizeResizeMap ==
    \E r \in ResizeInputs :
        ResizeStep([TheWorld EXCEPT !.m = resizeMap(map, r.width, r.height, r.anchor),
                                    !.h = pushAction(history, ResizeAction(map))],
                   "resizeMap")

ResizeCreateMap ==
    \E size \in {MIN_SIZE, MIN_SIZE + 1} :
        ResizeStep([TheWorld EXCEPT !.m = createMap(size, size, FreshId(map))], "createMap")

ResizeAddLayer ==
    ResizeStep([TheWorld EXCEPT !.m = addLayer(map, FreshId(map))], "addLayer")

ResizeDuplicateLayer ==
    ResizeStep([TheWorld EXCEPT !.m = duplicateLayer(map, map.activeLayerId, FreshId(map))],
               "duplicateLayer")

ResizeDeleteLayer ==
    /\ Len(map.layers) > 1
    /\ ResizeStep([TheWorld EXCEPT !.m = deleteLayer(map, map.activeLayerId)], "deleteLayer")

ResizeUndo ==
    /\ canUndo(history)
    /\ ResizeStep(keyUndo(TheWorld), "undo")

ResizeRedo ==
    /\ canRedo(history)
    /\ ResizeStep(keyRedo(TheWorld), "redo")

NextResize ==
    \/ ResizePointerDown
    \/ ResizePointerUp
    \/ ResizeResizeMap
    \/ ResizeCreateMap
    \/ ResizeAddLayer
    \/ ResizeDuplicateLayer
    \/ ResizeDeleteLayer
    \/ ResizeUndo
    \/ ResizeRedo

SpecResize == InitResize /\ [][NextResize]_vars

\* C14: while a map exists, the tile array of every layer has exactly
\* width * height entries.
C14_TileArraysMatchSize ==
    map # NoMap =>
        \A i \in 1..Len(map.layers) :
            DOMAIN map.layers[i].tiles = 1..(map.width * map.height)

\* width, height and every layer's tile array of m are those of n
SameShapeAndTiles(m, n) ==
    /\ m.width = n.width
    /\ m.height = n.height
    /\ Len(m.layers) = Len(n.layers)
    /\ \A i \in 1..Len(m.layers) :
          m.layers[i].id = n.layers[i].id /\ m.layers[i].tiles = n.layers[i].tiles

----------------------------------------------------------------------------
(* SpecFill: the fill tool on a map of the minimum size. Cells near the     *)
(* top-right corner are set to tile 1 (a wall) through the map store, the   *)
(* tileset panel selects the replacement tile, and pointer-down with the    *)
(* fill tool runs floodFill and applies its result, in any order.           *)
(* Observation: calls is the list floodFill returned for the last           *)
(* pointer-down, strokeStart and base are the map and the history store as  *)
(* they were before it, lastOp holds the start cell and the replacement id, *)
(* and lastOp.prev is the event before it.                                  *)

\* the cells that can be turned into walls: those around the top-right corner
WallPositions ==
    {Pos(MIN_SIZE - 1, 0), Pos(MIN_SIZE - 2, 0), Pos(MIN_SIZE - 3, 0),
     Pos(MIN_SIZE - 1, 1), Pos(MIN_SIZE - 2, 1), Pos(MIN_SIZE - 3, 1), Pos(MIN_SIZE - 2, 2)}

\* start cells inside the map, and one beyond each of its four edges
FillStarts ==
    {Pos(MIN_SIZE - 1, 0), Pos(MIN_SIZE - 2, 0), Pos(MIN_SIZE - 2, 1),
     Pos(-1, 1), Pos(MIN_SIZE, 1), Pos(MIN_SIZE - 2, -1), Pos(MIN_SIZE - 2, MIN_SIZE)}

InitFill ==
    /\ InitCommon
    /\ map = createMap(MIN_SIZE, MIN_SIZE, "L1")
    /\ strokeStart = NoMap

FillStep(w, op, returned) ==
    /\ steps < MaxFillSteps
    /\ history' = w.h
    /\ map' = w.m
    /\ tool' = w.tool
    /\ selstore' = w.ss
    /\ calls' = returned
    /\ strokeStart' = map
    /\ base' = history
    /\ lastOp' = [op |-> op.op, x |-> op.x, y |-> op.y, v |-> op.v, layerId |-> op.layerId,
                  prev |-> [op |-> lastOp.op, x |-> lastOp.x, y |-> lastOp.y, v |-> lastOp.v]]
    /\ steps' = steps + 1
    /\ UNCHANGED now

FillSetWall ==
    \E pos \in WallPositions :
        /\ getTile(map, pos.x, pos.y, "") # 1
        /\ FillStep([TheWorld EXCEPT !.m = setTile(map, pos.x, pos.y, 1, "")],
                    TileOp("setTile", pos, 1, ""), <<>>)

FillSelectTile ==
    \E localId \in TileChoices :
        /\ localId # tool.selectedTileId
        /\ FillStep(selectTile(TheWorld, localId), Op("selectTile"), <<>>)

FillKeyTool ==
    /\ tool.activeTool # "fill"
    /\ FillStep(keyTool(TheWorld, "fill"), Op("setActiveTool"), <<>>)

FillPointerDown ==
    /\ tool.activeTool = "fill"
    /\ \E start \in FillStarts :
          FillStep(onPointerDown(TheWorld, start, getSelectedGlobalTileId(tool), now),
                   TileOp("fill", start, getSelectedGlobalTileId(tool), ""),
                   floodFill(start.x, start.y, getSelectedGlobalTileId(tool), map,
                             getCurrentLayerId(map)))

NextFill ==
    \/ FillSetWall
    \/ FillSelectTile
    \/ FillKeyTool
    \/ FillPointerDown

SpecFill == InitFill /\ [][NextFill]_vars

\* the four neighbours of a cell
Neighbours(p) == {Pos(p.x - 1, p.y), Pos(p.x + 1, p.y), Pos(p.x, p.y - 1), Pos(p.x, p.y + 1)}

\* the cells of the map m that hold tileId, reachable from the cells of
\* region by 4-directional steps through such cells
RECURSIVE Reachable(_, _, _)
Reachable(m, tileId, region) ==
    LET more == {q \in UNION {Neighbours(p) : p \in region} :
                     /\ InBounds(m, q.x, q.y)
                     /\ getTile(m, q.x, q.y, "") = tileId} \ region
    IN IF more = {} THEN region ELSE Reachable(m, tileId, region \cup more)

\* the region a fill from the last pointer-down's start cell is to cover
FillRegion ==
    Reachable(strokeStart, getTile(strokeStart, lastOp.x, lastOp.y, ""),
              {Pos(lastOp.x, lastOp.y)})

Returned == {calls[i] : i \in 1..Len(calls)}

FilledInBounds ==
    /\ lastOp.op = "fill"
    /\ InBounds(strokeStart, lastOp.x, lastOp.y)
    /\ getTile(strokeStart, lastOp.x, lastOp.y, "") # lastOp.v

\* C15: for an in-bounds start cell and a replacement id other than the
\* start cell's, floodFill returns exactly the cells reachable from the
\* start cell by 4-directional steps through cells holding the start
\* cell's id, each of them once.
C15_FillIsFourConnectedRegion ==
    FilledInBounds => (Returned = FillRegion /\ Cardinality(Returned) = Len(calls))

\* C16: when the start cell lies outside the map, floodFill returns an empty
\* list, and the fill tool changes no tile and pushes no history action.
C16_FillOutsideMapIsEmpty ==
    (lastOp.op = "fill" /\ ~InBounds(strokeStart, lastOp.x, lastOp.y))
        => (calls = <<>> /\ map = strokeStart /\ history = base)

\* the event before the last pointer-down was a pointer-down with the fill
\* tool on the same start cell with the same replacement id
FilledAgain ==
    /\ lastOp.op = "fill"
    /\ lastOp.prev = [op |-> "fill", x |-> lastOp.x, y |-> lastOp.y, v |-> lastOp.v]

----------------------------------------------------------------------------
(* SpecSel: selections on a one-layer map of the minimum size. Tiles are    *)
(* set through the map store; a selection is made by Ctrl+A or by a drag    *)
(* of the select tool; Ctrl+X cuts it, the arrow keys move it, Enter        *)
(* commits it and Ctrl+V commits it and pastes the clipboard; in any order. *)
(* Observation: calls names the events from the last Ctrl+X on, as long as  *)
(* no event follows the commit; strokeStart is the map as it was before     *)
(* that Ctrl+X; base is the selection as it was before the last commit;     *)
(* lastOp.x and lastOp.y are the arguments of a move, lastOp.v counts the   *)
(* actions pushed since (and by) the last Ctrl+X, and lastOp.prev is the    *)
(* event before the last one.                                               *)

SelPositions == {Pos(0, 0), Pos(1, 0)}

\* ArrowRight and ArrowLeft
SelMoves == {Pos(1, 0), Pos(-1, 0)}

InitSel ==
    /\ InitCommon
    /\ map = createMap(MIN_SIZE, MIN_SIZE, "L1")
    /\ strokeStart = NoMap

Floating == selstore.selection # NoSelection /\ selstore.selection.floating

Pushed(w) == IF w.h # history THEN 1 ELSE 0

SelStep(w, name, x, y) ==
    /\ steps < MaxSelSteps
    /\ history' = w.h
    /\ map' = w.m
    /\ tool' = w.tool
    /\ selstore' = w.ss
    /\ calls' = IF name = "cut" THEN <<"cut">>
                ELSE IF calls = <<>> \/ Last(calls) = "commit" THEN <<>>
                ELSE Append(calls, name)
    /\ strokeStart' = IF name = "cut" THEN map ELSE strokeStart
    /\ base' = IF name = "commit" THEN selstore.selection ELSE base
    /\ lastOp' = [op |-> name, x |-> x, y |-> y,
                  v |-> IF name = "cut" THEN Pushed(w) ELSE lastOp.v + Pushed(w),
                  layerId |-> "",
                  prev |-> [op |-> lastOp.op, x |-> lastOp.x, y |-> lastOp.y]]
    /\ steps' = steps + 1
    /\ UNCHANGED now

SelSetTile ==
    \E pos \in SelPositions :
        /\ getTile(map, pos.x, pos.y, "") = 0
        /\ SelStep([TheWorld EXCEPT !.m = setTile(map, pos.x, pos.y, 1, "")],
                   "setTile", pos.x, pos.y)

SelSelectAll == SelStep(keySelectAll(TheWorld), "selectAll", 0, 0)

\* pointer-down of the select tool while no selection floats
SelStartDrag ==
    /\ ~Floating
    /\ ~selstore.isDragging
    /\ SelStep([TheWorld EXCEPT !.ss = startDrag(selstore, 0, 0)], "startDrag", 0, 0)

\* pointer-move of the select tool during a drag
SelUpdateDrag ==
    /\ selstore.isDragging
    /\ selstore.dragCurrentTile # Pos(1, 0)
    /\ SelStep([TheWorld EXCEPT !.ss = updateDrag(selstore, 1, 0)], "updateDrag", 1, 0)

\* pointer-up of the select tool during a drag
SelEndDrag ==
    /\ selstore.isDragging
    /\ SelStep([TheWorld EXCEPT !.ss = endDrag(selstore, map, getCurrentLayerId(map))],
               "endDrag", 0, 0)

SelCut ==
    /\ selstore.selection # NoSelection
    /\ ~selstore.selection.floating
    /\ SelStep(keyCut(TheWorld), "cut", 0, 0)

SelArrow ==
    /\ Floating
    /\ \E d \in SelMoves : SelStep(keyArrow(TheWorld, d.x, d.y), "move", d.x, d.y)

SelEnter ==
    /\ Floating
    /\ SelStep(keyEnter(TheWorld), "commit", 0, 0)

\* Ctrl+V while a selection floats: commits it, then pastes
SelPaste ==
    /\ Floating
    /\ SelStep(keyPaste(TheWorld), "commit", 0, 0)

NextSel ==
    \/ SelSetTile
    \/ SelSelectAll
    \/ SelStartDrag
    \/ SelUpdateDrag
    \/ SelEndDrag
    \/ SelCut
    \/ SelArrow
    \/ SelEnter
    \/ SelPaste

SpecSel == InitSel /\ [][NextSel]_vars

\* C18: a cut followed at once by a commit leaves every cell as it was
\* immediately before the cut.
C18_CutCommitRoundTrip == calls = <<"cut", "commit">> => map = strokeStart

\* the selection the last commit wrote, its cells numbered row by row
SourceCell(i) ==
    Pos(base.bounds.x + ((i - 1) % base.bounds.width),
        base.bounds.y + ((i - 1) \div base.bounds.width))

\* the source cell shifted by the arguments of the move before the commit
DestCell(i) == Pos(SourceCell(i).x + lastOp.prev.x, SourceCell(i).y + lastOp.prev.y)

\* the map between the cut and the commit
AfterCut == ClearArea(strokeStart, TRUE, base.bounds, base.layerId, 0)

TileAt(m, p) == getTile(m, p.x, p.y, base.layerId)

CutMoveCommit == calls = <<"cut", "move", "commit">>

\* the destination cell of payload entry i holds the payload value, or,
\* where the payload value is 0, what the grid held there before the commit
DestHolds(i) ==
    InBounds(map, DestCell(i).x, DestCell(i).y)
        => TileAt(map, DestCell(i)) =
              IF base.tiles[i] # 0 THEN base.tiles[i] ELSE TileAt(AfterCut, DestCell(i))

\* the cell p received a payload value other than 0
Stamped(p) == \E j \in DOMAIN base.tiles : DestCell(j) = p /\ base.tiles[j] # 0

\* C19, as stated: after cut, moveSelection(dx, dy) and commitSelection every
\* source cell is empty and every destination cell holds the payload value,
\* except destination cells whose payload value is 0, which keep what the
\* grid held.
C19_MoveLeavesSourceEmpty ==
    CutMoveCommit =>
        \A i \in DOMAIN base.tiles : TileAt(map, SourceCell(i)) = 0 /\ DestHolds(i)

\* C19, amended: after cut, moveSelection(dx, dy) and commitSelection every
\* destination cell inside the map holds the payload value, or what the grid
\* held where the payload value is 0, and every source cell is empty unless
\* it is itself a destination cell that received a payload value other
\* than 0.
C19_MoveLeavesUnstampedSourceEmpty ==
    CutMoveCommit =>
        \A i \in DOMAIN base.tiles :
            /\ DestHolds(i)
            /\ ~Stamped(SourceCell(i)) => TileAt(map, SourceCell(i)) = 0

\* a tile was cut and committed one cell to the right: its cell is empty,
\* the cell to the right, empty before, holds it
C19_Witness ==
    /\ CutMoveCommit
    /\ lastOp.prev.x = 1
    /\ \E i \in DOMAIN base.tiles :
          /\ base.tiles[i] # 0
          /\ TileAt(strokeStart, SourceCell(i)) = base.tiles[i]
          /\ TileAt(strokeStart, DestCell(i)) = 0
          /\ TileAt(map, SourceCell(i)) = 0
          /\ TileAt(map, DestCell(i)) = base.tiles[i]

RECURSIVE UndoTimes(_, _)
UndoTimes(e, n) == IF n = 0 THEN e ELSE UndoTimes(performUndo(e), n - 1)

RECURSIVE RedoTimes(_, _)
RedoTimes(e, n) == IF n = 0 THEN e ELSE RedoTimes(performRedo(e), n - 1)

\* a cut, then moves only, then a commit
CutMovesCommit ==
    /\ Len(calls) >= 2
    /\ calls[1] = "cut"
    /\ calls[Len(calls)] = "commit"
    /\ \A i \in 2..(Len(calls) - 1) : calls[i] = "move"

\* C20: after a cut, any number of moves and a commit through the keyboard
\* handlers, undoing the actions they pushed restores the tiles of every
\* layer as they were before the cut, and redoing them restores the tiles
\* as they were after the commit.
C20_CutMoveCommitUndoable ==
    CutMovesCommit =>
        /\ UndoTimes(Ed(history, map), lastOp.v).m = strokeStart
        /\ RedoTimes(UndoTimes(Ed(history, map), lastOp.v), lastOp.v).m = map

\* a cut and a commit that each pushed an action, with two moves in between,
\* left the map changed
C20_Witness ==
    /\ CutMovesCommit
    /\ Len(calls) = 4
    /\ lastOp.v = 2
    /\ map # strokeStart
    /\ Last(history.past).type = "paste"
    /\ UndoTimes(Ed(history, map), 1).m # map
    /\ UndoTimes(Ed(history, map), 2).m = strokeStart

----------------------------------------------------------------------------
(* Tileset registry: useTilesetStore in src/unnamed/part_003. A tileset is  *)
(* modelled by its id and its tileCount; its images are never read by the   *)
(* id arithmetic. null is NoTileset, NoResolved, and "" for an id.          *)

Tileset(id, tileCount) == [id |-> id, tileCount |-> tileCount]

NoTileset == Tileset("", 0)

NoResolved == [tileset |-> NoTileset, localId |-> -1]

EmptyTilesetStore ==
    [tilesets |-> <<>>, activeTilesetId |-> "", selectedTileId |-> 0,
     selectedTileIds |-> <<0>>]

\* tilesets.findIndex((t) => t.id === id), 1-based; 0 when there is none
TilesetIndex(tilesets, id) ==
    IF \E k \in 1..Len(tilesets) : tilesets[k].id = id
    THEN CHOOSE k \in 1..Len(tilesets) :
            /\ tilesets[k].id = id
            /\ \A j \in 1..(k - 1) : tilesets[j].id # id
    ELSE 0

importTileset(ts, tileset) ==
    [ts EXCEPT !.tilesets = Append(@, tileset),
               !.activeTilesetId = IF @ = "" THEN tileset.id ELSE @]

removeTileset(ts, id) ==
    LET index == TilesetIndex(ts.tilesets, id)
        rest == RemoveAt(ts.tilesets, index)
    IN  IF index = 0 THEN ts
        ELSE IF ts.activeTilesetId = id
        THEN [tilesets |-> rest,
              activeTilesetId |-> IF Len(rest) > 0 THEN rest[1].id ELSE "",
              selectedTileId |-> 0,
              selectedTileIds |-> <<0>>]
        ELSE [ts EXCEPT !.tilesets = rest]

\* reloadTilesetWithConfig gives the same tileset with the tiles cut anew
updateTilesetConfig(ts, id, tileCount) ==
    LET index == TilesetIndex(ts.tilesets, id)
    IN  IF index = 0 THEN ts
        ELSE [ts EXCEPT !.tilesets[index] = Tileset(id, tileCount)]

setActiveTileset(ts, id) ==
    [ts EXCEPT !.activeTilesetId = id, !.selectedTileId = 0, !.selectedTileIds = <<0>>]

RECURSIVE GlobalIdLoop(_, _, _, _, _)
GlobalIdLoop(tilesets, k, firstGid, tilesetId, localId) ==
    IF k > Len(tilesets) THEN 0
    ELSE IF tilesets[k].id = tilesetId THEN firstGid + localId
    ELSE GlobalIdLoop(tilesets, k + 1, firstGid + tilesets[k].tileCount,
                      tilesetId, localId)

getGlobalTileId(ts, tilesetId, localId) ==
    GlobalIdLoop(ts.tilesets, 1, 1, tilesetId, localId)

RECURSIVE ResolveLoop(_, _, _, _)
ResolveLoop(tilesets, k, firstGid, globalId) ==
    IF k > Len(tilesets) THEN NoResolved
    ELSE IF globalId >= firstGid /\ globalId < firstGid + tilesets[k].tileCount
    THEN [tileset |-> tilesets[k], localId |-> globalId - firstGid]
    ELSE ResolveLoop(tilesets, k + 1, firstGid + tilesets[k].tileCount, globalId)

\* the scan starts at id 0 instead of 1 (a wrong scan, used to test the
\* round trip)
resolveGlobalTileId_FromZero(ts, globalId) ==
    IF globalId = 0 THEN NoResolved
    ELSE ResolveLoop(ts.tilesets, 1, 0, globalId)

resolveGlobalTileId(ts, globalId) ==
    IF globalId = 0 THEN NoResolved
    ELSE ResolveLoop(ts.tilesets, 1, 1, globalId)

----------------------------------------------------------------------------
(* SpecTilesets: tilesets are imported, removed, reconfigured and made      *)
(* active, in any order. Here tool holds the tileset store's state. Every   *)
(* import gets a fresh id (crypto.randomUUID). Observation: lastOp.id is    *)
(* the argument of the last operation and lastOp.prev the store before it;  *)
(* base is the set of global ids that lay in the block of a tileset when    *)
(* it was removed, since the last import.                                   *)

MaxTilesetSteps == 5   \* store operations per behaviour of SpecTilesets

\* tileCount = columns * rows, both at least 1 (part_001 lines 57, 115)
TileCounts == {1, 2}

TilesetIds == <<"T1", "T2", "T3", "T4", "T5", "T6", "T7", "T8">>

\* removeTileset and getGlobalTileId are also called with an id that is not
\* registered
TilesetArgs(ts) == {ts.tilesets[k].id : k \in 1..Len(ts.tilesets)} \cup {"T0"}

\* the global ids in use: one more than the registered tilesets hold
RECURSIVE TotalTiles(_)
TotalTiles(tilesets) ==
    IF tilesets = <<>> THEN 0 ELSE Last(tilesets).tileCount + TotalTiles(Front(tilesets))

GlobalIds(ts) == 0..(1 + TotalTiles(ts.tilesets))

Block(ts, id) ==
    {g \in GlobalIds(ts) : resolveGlobalTileId(ts, g) # NoResolved
                            /\ resolveGlobalTileId(ts, g).tileset.id = id}

InitTilesets ==
    /\ history = EmptyHistory
    /\ map = NoMap
    /\ now = 0
    /\ tool = EmptyTilesetStore
    /\ selstore = EmptySelStore
    /\ calls = <<>>
    /\ base = {}
    /\ strokeStart = NoMap
    /\ lastOp = [op |-> "init", id |-> "", prev |-> EmptyTilesetStore]
    /\ steps = 0

TilesetStep(ts, name, id, stale) ==
    /\ steps < MaxTilesetSteps
    /\ steps' = steps + 1
    /\ tool' = ts
    /\ lastOp' = [op |-> name, id |-> id, prev |-> tool]
    /\ base' = stale
    /\ UNCHANGED <<history, map, now, selstore, calls, strokeStart>>

TilesetsImport ==
    \E tileCount \in TileCounts :
        LET id == TilesetIds[steps + 1]
        IN  TilesetStep(importTileset(tool, Tileset(id, tileCount)), "importTileset", id, {})

TilesetsRemove ==
    \E id \in TilesetArgs(tool) :
        TilesetStep(removeTileset(tool, id), "removeTileset", id,
                    base \cup Block(tool, id))

TilesetsUpdateConfig ==
    \E id \in TilesetArgs(tool) \ {"T0"}, tileCount \in TileCounts :
        /\ tileCount # tool.tilesets[TilesetIndex(tool.tilesets, id)].tileCount
        /\ TilesetStep(updateTilesetConfig(tool, id, tileCount), "updateTilesetConfig",
                       id, base)

TilesetsSetActive ==
    \E id \in TilesetArgs(tool) \ {"T0", tool.activeTilesetId} :
        TilesetStep(setActiveTileset(tool, id), "setActiveTileset", id, base)

NextTilesets ==
    \/ TilesetsImport
    \/ TilesetsRemove
    \/ TilesetsUpdateConfig
    \/ TilesetsSetActive

SpecTilesets == InitTilesets /\ [][NextTilesets]_vars

Registered(ts) == {ts.tilesets[k] : k \in 1..Len(ts.tilesets)}

\* C21: removing a tileset does not renumber the surviving blocks: for every
\* tileset T that remains registered and every local index i,
\* getGlobalTileId(T, i) is the same after the removal as before it, and
\* every global id that resolved to (T, i) before still resolves to (T, i).
C21_RemovalKeepsSurvivingBlocks ==
    lastOp.op = "removeTileset" =>
        \A T \in Registered(tool) : \A i \in 0..(T.tileCount - 1) :
            /\ getGlobalTileId(tool, T.id, i) = getGlobalTileId(lastOp.prev, T.id, i)
            /\ \A g \in GlobalIds(lastOp.prev) :
                  resolveGlobalTileId(lastOp.prev, g) = [tileset |-> T, localId |-> i]
                      => resolveGlobalTileId(tool, g) = [tileset |-> T, localId |-> i]

\* C22: after a tileset is removed, every global id that lay in its block
\* resolves to "not found" and never to a tile of another tileset, as long
\* as no new tileset is registered.
C22_StaleIdsNotFound ==
    \A g \in base : resolveGlobalTileId(tool, g) = NoResolved

\* the global ids getGlobalTileId gives to the tiles of a registered tileset
BlockOf(ts, T) == {getGlobalTileId(ts, T.id, i) : i \in 0..(T.tileCount - 1)}

\* C27: global id round trip: for every registered tileset T and local index
\* i with 0 <= i < T.tileCount, resolveGlobalTileId(getGlobalTileId(T, i))
\* returns (T, i); the blocks of distinct tilesets never overlap and start at
\* 1 in registration order; resolveGlobalTileId(0) returns no tile and
\* getGlobalTileId of an unknown tileset id returns 0.
C27_GlobalIdRoundTrip ==
    /\ \A T \in Registered(tool) : \A i \in 0..(T.tileCount - 1) :
          resolveGlobalTileId(tool, getGlobalTileId(tool, T.id, i))
              = [tileset |-> T, localId |-> i]
    /\ \A S, T \in Registered(tool) : S # T => BlockOf(tool, S) \cap BlockOf(tool, T) = {}
    /\ \A k \in 1..Len(tool.tilesets) :
          getGlobalTileId(tool, tool.tilesets[k].id, 0)
              = IF k = 1 THEN 1
                ELSE getGlobalTileId(tool, tool.tilesets[k - 1].id, 0)
                         + tool.tilesets[k - 1].tileCount
    /\ resolveGlobalTileId(tool, 0) = NoResolved
    /\ \A i \in 0..1 : getGlobalTileId(tool, "T0", i) = 0

\* three tilesets are registered after a removal, and the last tile of the
\* last one makes the round trip
C27_Witness ==
    /\ Len(tool.tilesets) = 3
    /\ lastOp.prev.tilesets # tool.tilesets
    /\ tool.tilesets[1].tileCount = 2
    /\ tool.tilesets[3].tileCount = 2
    /\ resolveGlobalTileId(tool, getGlobalTileId(tool, tool.tilesets[3].id, 1))
          = [tileset |-> tool.tilesets[3], localId |-> 1]
    /\ \E id \in TilesetArgs(lastOp.prev) : id \notin TilesetArgs(tool)

----------------------------------------------------------------------------
(* SpecAnchors: resizeMap on one-layer maps of the three smallest widths    *)
(* and heights, with each of the nine anchors, to each of those sizes. In   *)
(* the initial map every cell holds an id of its own, so that a cell of the *)
(* resized map tells where it came from. Observation: strokeStart is the    *)
(* map before the last resize, lastOp.anchor its anchor.                    *)

MaxAnchorSteps == 1    \* resizes per behaviour of SpecAnchors

ResizeAnchors ==
    {"top-left", "top", "top-right", "left", "center", "right",
     "bottom-left", "bottom", "bottom-right"}

AnchorSizes == MIN_SIZE..(MIN_SIZE + 2)

\* the map after createMap and one setTile per cell: cell (x, y) holds
\* y * width + x + 1
NumberedMap(width, height) ==
    [createMap(width, height, "L1") EXCEPT
        !.layers[1].tiles = [i \in 1..(width * height) |-> i]]

InitAnchors ==
    /\ InitCommon
    /\ \E width \in AnchorSizes, height \in AnchorSizes : map = NumberedMap(width, height)
    /\ strokeStart = NoMap

AnchorsResizeMap ==
    \E newWidth \in AnchorSizes, newHeight \in AnchorSizes, anchor \in ResizeAnchors :
        /\ steps < MaxAnchorSteps
        /\ map' = resizeMap(map, newWidth, newHeight, anchor)
        /\ history' = pushAction(history, ResizeAction(map))
        /\ strokeStart' = map
        /\ lastOp' = [op |-> "resizeMap", anchor |-> anchor]
        /\ steps' = steps + 1
        /\ UNCHANGED <<now, tool, selstore, calls, base>>

SpecAnchors == InitAnchors /\ [][AnchorsResizeMap]_vars

\* the tile of the only layer at (x, y)
CellOf(m, x, y) == m.layers[1].tiles[y * m.width + x + 1]

\* C24: resize anchors: when growing with anchor top-left every old cell
\* (x, y) keeps its tile at (x, y); with anchor bottom-right the tile at
\* (oldWidth-1, oldHeight-1) ends up at (newWidth-1, newHeight-1); in every
\* resize a cell whose source position falls outside the old extent is 0,
\* and old cells mapped outside the new extent are discarded.
C24_ResizeAnchors ==
    lastOp.op = "resizeMap" =>
        LET old == strokeStart
            offset == calculateResizeOffset(old.width, old.height, map.width, map.height,
                                            lastOp.anchor)
        IN  /\ (lastOp.anchor = "top-left" /\ map.width >= old.width
                                           /\ map.height >= old.height)
                  => \A x \in 0..(old.width - 1), y \in 0..(old.height - 1) :
                        CellOf(map, x, y) = CellOf(old, x, y)
            /\ lastOp.anchor = "bottom-right"
                  => CellOf(map, map.width - 1, map.height - 1)
                        = CellOf(old, old.width - 1, old.height - 1)
            /\ \A x \in 0..(map.width - 1), y \in 0..(map.height - 1) :
                  LET srcX == x - offset.x
                      srcY == y - offset.y
                  IN  IF srcX \in 0..(old.width - 1) /\ srcY \in 0..(old.height - 1)
                      THEN CellOf(map, x, y) = CellOf(old, srcX, srcY)
                      ELSE CellOf(map, x, y) = 0
            /\ \A x \in 0..(old.width - 1), y \in 0..(old.height - 1) :
                  (/\ CellOf(old, x, y) # 0
                   /\ \/ x + offset.x \notin 0..(map.width - 1)
                      \/ y + offset.y \notin 0..(map.height - 1))
                      => \A i \in DOMAIN map.layers[1].tiles :
                            map.layers[1].tiles[i] # CellOf(old, x, y)
            /\ DOMAIN map.layers[1].tiles = 1..(map.width * map.height)

\* anchored bottom-right, the map grew in width and shrank in height: the
\* old corner tile is in the new corner, columns were added on the left and
\* rows were dropped at the top
C24_Witness ==
    /\ lastOp.op = "resizeMap"
    /\ lastOp.anchor = "bottom-right"
    /\ map.width = strokeStart.width + 2
    /\ map.height = strokeStart.height - 1
    /\ CellOf(map, map.width - 1, map.height - 1) = strokeStart.width * strokeStart.height
    /\ CellOf(map, 0, 0) = 0
    /\ \A i \in DOMAIN map.layers[1].tiles : map.layers[1].tiles[i] # 1

----------------------------------------------------------------------------
(* SpecLine: getLinePositions between any two cells of a square of grid     *)
(* cells, as the pointer-move handler calls it: from the stroke's last       *)
(* position to the new one. Observation: calls is the list returned by the  *)
(* last call, lastOp holds its arguments.                                   *)

MaxLineSteps == 1      \* calls per behaviour of SpecLine
LineSpan == 6          \* the cells have coordinates 0..LineSpan

LineCells == {Pos(x, y) : x \in 0..LineSpan, y \in 0..LineSpan}

\* a stroke was begun at one of the cells
InitLine ==
    /\ history = EmptyHistory
    /\ now = 0
    /\ \E from \in LineCells :
          tool = [InitialTool EXCEPT !.isDrawing = TRUE, !.lastPosition = from]
    /\ selstore = EmptySelStore
    /\ calls = <<>>
    /\ base = EmptyHistory
    /\ lastOp = Op("init")
    /\ steps = 0
    /\ map = createMap(MIN_SIZE, MIN_SIZE, "L1")
    /\ strokeStart = NoMap

\* the pointer moves to another cell: the line from the last position
LineGetLinePositions ==
    \E to \in LineCells :
        /\ steps < MaxLineSteps
        /\ calls' = getLinePositions(tool.lastPosition.x, tool.lastPosition.y, to.x, to.y)
        /\ tool' = [tool EXCEPT !.lastPosition = to]
        /\ lastOp' = [op |-> "getLinePositions", from |-> tool.lastPosition, to |-> to]
        /\ steps' = steps + 1
        /\ UNCHANGED <<history, map, now, selstore, base, strokeStart>>

SpecLine == InitLine /\ [][LineGetLinePositions]_vars

\* C25: for any two grid cells getLinePositions terminates and returns a
\* sequence whose first element is the start cell, whose last element is the
\* end cell, in which every consecutive pair differs by at most 1 in x and
\* at most 1 in y and is never the same cell, and which holds no cell twice.
C25_LineIsConnectedPath ==
    lastOp.op = "getLinePositions" =>
        /\ Len(calls) >= 1
        /\ calls[1] = lastOp.from
        /\ calls[Len(calls)] = lastOp.to
        /\ \A i \in 1..(Len(calls) - 1) :
              /\ Abs(calls[i + 1].x - calls[i].x) <= 1
              /\ Abs(calls[i + 1].y - calls[i].y) <= 1
              /\ calls[i + 1] # calls[i]
        /\ \A i, j \in 1..Len(calls) : i # j => calls[i] # calls[j]

\* a shallow line to the upper left: six cells in x, two in y, with
\* diagonal and straight steps
C25_Witness ==
    /\ lastOp.op = "getLinePositions"
    /\ lastOp.from = Pos(5, 2)
    /\ lastOp.to = Pos(0, 0)
    /\ Len(calls) = 6
    /\ \E i \in 1..5 : calls[i + 1].y = calls[i].y
    /\ \E i \in 1..5 : calls[i + 1].y # calls[i].y

----------------------------------------------------------------------------
(* SpecBrush: getBrushPositions on a map of the minimum size, for centers   *)
(* inside the map and one cell outside it, both shapes and the smallest     *)
(* sizes. Observation: calls is the list returned by the last call, lastOp  *)
(* holds its arguments.                                                     *)

MaxBrushSteps == 1     \* calls per behaviour of SpecBrush
MaxBrushSize == 4      \* brush sizes 1..MaxBrushSize

\* columns from one cell left of the map to one cell right of it; the rows
\* above, at and below the top and bottom edges, and a row in the middle
BrushCenters ==
    {Pos(x, y) : x \in -1..MIN_SIZE, y \in {-1, 0, 3, MIN_SIZE - 1, MIN_SIZE}}

BrushShapes == {"square", "circle"}

InitBrush ==
    /\ InitCommon
    /\ map = createMap(MIN_SIZE, MIN_SIZE, "L1")
    /\ strokeStart = NoMap

\* setBrushSize and setBrushShape, then the positions under the brush
BrushGetBrushPositions ==
    \E center \in BrushCenters, size \in 1..MaxBrushSize, shape \in BrushShapes :
        LET settings == [size |-> size, shape |-> shape]
        IN  /\ steps < MaxBrushSteps
            /\ tool' = [tool EXCEPT !.brushSettings = settings]
            /\ calls' = getBrushPositions(center.x, center.y, settings, map.width, map.height)
            /\ lastOp' = [op |-> "getBrushPositions", center |-> center,
                          settings |-> settings]
            /\ steps' = steps + 1
            /\ UNCHANGED <<history, map, now, selstore, base, strokeStart>>

SpecBrush == InitBrush /\ [][BrushGetBrushPositions]_vars

Chebyshev(p, q) == Max(Abs(p.x - q.x), Abs(p.y - q.y))

\* C26: getBrushPositions with size = 1 returns exactly one position, the
\* center, for both shapes when the center is in bounds; for every size and
\* shape every returned position is inside the map; a circle of even size
\* never includes a cell at Chebyshev distance greater than radius + 1 from
\* the center.
C26_BrushPositions ==
    lastOp.op = "getBrushPositions" =>
        LET center == lastOp.center
            size == lastOp.settings.size
            radius == size \div 2
        IN  /\ (size = 1 /\ InBounds(map, center.x, center.y)) => calls = <<center>>
            /\ \A i \in 1..Len(calls) : InBounds(map, calls[i].x, calls[i].y)
            /\ (lastOp.settings.shape = "circle" /\ size % 2 = 0)
                  => \A i \in 1..Len(calls) : Chebyshev(calls[i], center) <= radius + 1

\* a circle of size 4 next to the right edge of the map: the cell two up
\* and two to the left is returned, the cell one to the right and two down
\* is inside the square and outside the circle, and the column right of the
\* map is cut off
C26_Witness ==
    /\ lastOp.op = "getBrushPositions"
    /\ lastOp.settings = [size |-> 4, shape |-> "circle"]
    /\ lastOp.center = Pos(MIN_SIZE - 2, 3)
    /\ \E i \in 1..Len(calls) : calls[i] = Pos(MIN_SIZE - 4, 1)
    /\ \A i \in 1..Len(calls) : calls[i] # Pos(MIN_SIZE - 1, 5)
    /\ \E i \in 1..Len(calls) : calls[i] = Pos(MIN_SIZE - 1, 4)

----------------------------------------------------------------------------
(* Pointer-down of the select tool: onPointerDown in                        *)
(* src/src/hooks/useToolHandler.ts:91-137                                   *)

isPointInBounds(point, bounds) ==
    /\ point.x >= bounds.x
    /\ point.x < bounds.x + bounds.width
    /\ point.y >= bounds.y
    /\ point.y < bounds.y + bounds.height

\* the selection store's getSelectionBounds: the live rectangle during a
\* drag, else the selection's bounds moved by its offset, else null (the
\* empty bounds of NoSelection)
getSelectionBounds(ss) ==
    IF ss.isDragging /\ ss.dragStartTile # NoPos /\ ss.dragCurrentTile # NoPos
    THEN LET x1 == Min(ss.dragStartTile.x, ss.dragCurrentTile.x)
             y1 == Min(ss.dragStartTile.y, ss.dragCurrentTile.y)
             x2 == Max(ss.dragStartTile.x, ss.dragCurrentTile.x)
             y2 == Max(ss.dragStartTile.y, ss.dragCurrentTile.y)
         IN [x |-> x1, y |-> y1, width |-> x2 - x1 + 1, height |-> y2 - y1 + 1]
    ELSE IF ss.selection # NoSelection
    THEN [x |-> ss.selection.bounds.x + ss.selection.offsetX,
          y |-> ss.selection.bounds.y + ss.selection.offsetY,
          width |-> ss.selection.bounds.width,
          height |-> ss.selection.bounds.height]
    ELSE NoSelection.bounds

\* the change list the handler records before it commits: as CommitChanges,
\* with the old tile read by getTile(x, y) from the active layer
RECURSIVE PointerCommitChanges(_, _, _, _)
PointerCommitChanges(m, sel, i, changes) ==
    IF i >= sel.bounds.width * sel.bounds.height THEN changes
    ELSE LET newTileId == sel.tiles[i + 1]
             x == sel.bounds.x + sel.offsetX + (i % sel.bounds.width)
             y == sel.bounds.y + sel.offsetY + (i \div sel.bounds.width)
             oldTileId == getTile(m, x, y, "")
         IN PointerCommitChanges(m, sel, i + 1,
                                 IF newTileId # 0 /\ oldTileId # newTileId
                                 THEN Append(changes,
                                             TileChange(x, y, sel.layerId, oldTileId, newTileId))
                                 ELSE changes)

\* case 'select': a press inside a floating selection starts moving it (the
\* handler's refs only); a press outside commits it and starts a new drag
onPointerDownSelect(w, tilePos) ==
    IF w.m = NoMap THEN w
    ELSE LET sel == w.ss.selection IN
         IF sel # NoSelection /\ sel.floating
         THEN IF isPointInBounds(tilePos, getSelectionBounds(w.ss)) THEN w
              ELSE LET changes == PointerCommitChanges(w.m, sel, 0, <<>>)
                       r == commitSelection(w.ss, w.m, TRUE)
                   IN [w EXCEPT !.ss = startDrag(r.ss, tilePos.x, tilePos.y),
                                !.m = r.m,
                                !.h = IF Len(changes) > 0
                                      THEN pushAction(w.h, [type |-> "paste",
                                                            changes |-> changes])
                                      ELSE w.h]
         ELSE [w EXCEPT !.ss = startDrag(w.ss, tilePos.x, tilePos.y)]

----------------------------------------------------------------------------
(* SpecKeys: the selection keys and the select tool on a one-layer map of   *)
(* the minimum size whose layer can be locked. A tile is set through the    *)
(* map store; Ctrl+L locks and unlocks the layer; a selection is made by    *)
(* Ctrl+A or by a drag; Ctrl+X, Delete, the arrow keys, Enter, Escape and   *)
(* Ctrl+V act on it; Ctrl+Z undoes; in any order. Observation: strokeStart  *)
(* and base are the map and the selection store as they were before the     *)
(* last event.                                                              *)

MaxKeySteps == 5       \* events per behaviour of SpecKeys

KeyPositions == {Pos(0, 0), Pos(0, 1)}

InitKeys ==
    /\ InitCommon
    /\ map = createMap(MIN_SIZE, MIN_SIZE, "L1")
    /\ strokeStart = NoMap

KeysStep(w, name) ==
    /\ steps < MaxKeySteps
    /\ history' = w.h
    /\ map' = w.m
    /\ tool' = w.tool
    /\ selstore' = w.ss
    /\ strokeStart' = map
    /\ base' = selstore
    /\ lastOp' = Op(name)
    /\ steps' = steps + 1
    /\ UNCHANGED <<now, calls>>

KeysSetTile ==
    /\ getTile(map, 0, 0, "") = 0
    /\ canEditLayer(map, "")
    /\ KeysStep([TheWorld EXCEPT !.m = setTile(map, 0, 0, 1, "")], "setTile")

KeysToggleLock == KeysStep(keyToggleLock(TheWorld), "toggleLock")

KeysSelectAll == KeysStep(keySelectAll(TheWorld), "selectAll")

KeysPointerDown ==
    \E tilePos \in KeyPositions :
        /\ ~selstore.isDragging
        /\ KeysStep(onPointerDownSelect(TheWorld, tilePos), "pointerDown")

KeysPointerUp ==
    /\ selstore.isDragging
    /\ KeysStep([TheWorld EXCEPT !.ss = endDrag(selstore, map, getCurrentLayerId(map))],
                "pointerUp")

KeysCut ==
    /\ selstore.selection # NoSelection
    /\ KeysStep(keyCut(TheWorld), "cut")

KeysDelete ==
    /\ selstore.selection # NoSelection
    /\ ~selstore.selection.floating
    /\ KeysStep(keyDelete(TheWorld), "delete")

KeysArrow ==
    /\ Floating
    /\ selstore.selection.offsetX = 0
    /\ KeysStep(keyArrow(TheWorld, 1, 0), "move")

KeysEnter ==
    /\ Floating
    /\ KeysStep(keyEnter(TheWorld), "enter")

KeysEscape ==
    /\ selstore.selection # NoSelection
    /\ KeysStep(keyEscape(TheWorld), "escape")

KeysPaste ==
    /\ hasClipboard(selstore)
    /\ KeysStep(keyPaste(TheWorld), "paste")

KeysUndo ==
    /\ canUndo(history)
    /\ KeysStep(keyUndo(TheWorld), "undo")

NextKeys ==
    \/ KeysSetTile
    \/ KeysToggleLock
    \/ KeysSelectAll
    \/ KeysPointerDown
    \/ KeysPointerUp
    \/ KeysCut
    \/ KeysDelete
    \/ KeysArrow
    \/ KeysEnter
    \/ KeysEscape
    \/ KeysPaste
    \/ KeysUndo

SpecKeys == InitKeys /\ [][NextKeys]_vars

\* C29: while a layer is locked, no tool or selection operation driven
\* through the pointer, keyboard or toolbar handlers (brush, eraser, fill,
\* cut, delete-selection, commit of a floating selection) changes any tile
\* of that layer; only undo/redo replay (and resize) may change a locked
\* layer's tiles.
C29_LockedLayerUntouched ==
    (strokeStart # NoMap /\ lastOp.op \notin {"undo", "redo"}) =>
        \A li \in 1..Len(strokeStart.layers) :
            strokeStart.layers[li].locked
                => map.layers[li].tiles = strokeStart.layers[li].tiles

\* the selection that floated before the last event is no longer there
FloatingGone ==
    /\ lastOp.op \notin {"init", "move"}
    /\ base.selection # NoSelection
    /\ base.selection.floating
    /\ selstore.selection # base.selection

\* C30: a floating selection is never lost: every transition that replaces
\* or clears a floating selection (new drag, paste, select-all, escape,
\* enter, clear) first commits it, so that the payload's non-zero cells are
\* written to the grid before the selection disappears.
C30_FloatingNeverLost ==
    FloatingGone =>
        LET sel == base.selection
        IN  \A i \in 1..Len(sel.tiles) :
                LET x == sel.bounds.x + sel.offsetX + ((i - 1) % sel.bounds.width)
                    y == sel.bounds.y + sel.offsetY + ((i - 1) \div sel.bounds.width)
                IN  (sel.tiles[i] # 0 /\ InBounds(map, x, y))
                        => getTile(map, x, y, sel.layerId) = sel.tiles[i]

----------------------------------------------------------------------------
(* SpecStore: the selection store's operations called in any order, as its  *)
(* interface allows, on a one-layer map of the minimum size. Tiles are set  *)
(* through the map store; cut and commitSelection are handed setTileRaw, as *)
(* every caller does. Observation: strokeStart and base are the map and the *)
(* selection store as they were before the last operation, lastOp holds its *)
(* name and arguments, and calls lists the cells given to startDrag and     *)
(* updateDrag since the last startDrag.                                     *)

MaxStoreSteps == 5     \* operations per behaviour of SpecStore

StoreTilePositions == {Pos(0, 0), Pos(1, 1)}

StoreDragCells == {Pos(0, 0), Pos(1, 1), Pos(2, 0)}

\* paste targets: the origin, and a cell from which the clipboard overhangs
\* the map
StorePasteTargets == {Pos(0, 0), Pos(MIN_SIZE - 1, 1)}

StoreMoves == {Pos(1, 0), Pos(0, -1)}

InitStore ==
    /\ history = EmptyHistory
    /\ map = createMap(MIN_SIZE, MIN_SIZE, "L1")
    /\ now = 0
    /\ tool = InitialTool
    /\ selstore = EmptySelStore
    /\ calls = <<>>
    /\ base = EmptySelStore
    /\ strokeStart = NoMap
    /\ lastOp = Op("init")
    /\ steps = 0

StoreStep(ss, m, name, x, y, cells) ==
    /\ steps < MaxStoreSteps
    /\ selstore' = ss
    /\ map' = m
    /\ base' = selstore
    /\ strokeStart' = map
    /\ lastOp' = [Op(name) EXCEPT !.x = x, !.y = y]
    /\ calls' = cells
    /\ steps' = steps + 1
    /\ UNCHANGED <<history, now, tool>>

StoreSetTile ==
    \E pos \in StoreTilePositions, tileId \in {0, 1} :
        /\ getTile(map, pos.x, pos.y, "") # tileId
        /\ StoreStep(selstore, setTile(map, pos.x, pos.y, tileId, ""), "setTile",
                     pos.x, pos.y, calls)

StoreStartDrag ==
    \E cell \in StoreDragCells :
        StoreStep(startDrag(selstore, cell.x, cell.y), map, "startDrag", cell.x, cell.y,
                  <<cell>>)

StoreUpdateDrag ==
    \E cell \in StoreDragCells :
        /\ selstore.dragCurrentTile # cell
        /\ StoreStep(updateDrag(selstore, cell.x, cell.y), map, "updateDrag", cell.x, cell.y,
                     IF selstore.isDragging THEN Append(calls, cell) ELSE calls)

StoreEndDrag ==
    StoreStep(endDrag(selstore, map, getCurrentLayerId(map)), map, "endDrag", 0, 0, calls)

StoreClearSelection ==
    /\ selstore.selection # NoSelection \/ selstore.isDragging
    /\ StoreStep(clearSelection(selstore), map, "clearSelection", 0, 0, calls)

StoreSelectAll ==
    StoreStep(selectAll(selstore, map.width, map.height, map, getCurrentLayerId(map)), map,
              "selectAll", 0, 0, calls)

StoreCopy == StoreStep(copy(selstore), map, "copy", 0, 0, calls)

StoreCut ==
    LET r == cut(selstore, map, TRUE)
    IN  StoreStep(r.ss, r.m, "cut", 0, 0, calls)

StorePaste ==
    \E target \in StorePasteTargets :
        StoreStep(paste(selstore, target.x, target.y), map, "paste", target.x, target.y, calls)

StoreMoveSelection ==
    \E d \in StoreMoves :
        StoreStep(moveSelection(selstore, d.x, d.y), map, "moveSelection", d.x, d.y, calls)

StoreCommitSelection ==
    LET r == commitSelection(selstore, map, TRUE)
    IN  StoreStep(r.ss, r.m, "commitSelection", 0, 0, calls)

NextStore ==
    \/ StoreSetTile
    \/ StoreStartDrag
    \/ StoreUpdateDrag
    \/ StoreEndDrag
    \/ StoreClearSelection
    \/ StoreSelectAll
    \/ StoreCopy
    \/ StoreCut
    \/ StorePaste
    \/ StoreMoveSelection
    \/ StoreCommitSelection

SpecStore == InitStore /\ [][NextStore]_vars

\* C31: moveSelection(dx, dy) is pure bookkeeping on a floating selection:
\* it adds (dx, dy) to the floating selection's offset and changes nothing
\* else (no grid tile, no history stack, no clipboard, payload and bounds
\* unchanged); when the selection is not floating or absent it changes
\* nothing at all.
C31_MoveIsBookkeeping ==
    lastOp.op = "moveSelection" =>
        /\ map = strokeStart
        /\ history = EmptyHistory
        /\ IF base.selection # NoSelection /\ base.selection.floating
           THEN selstore = [base EXCEPT !.selection.offsetX = @ + lastOp.x,
                                        !.selection.offsetY = @ + lastOp.y]
           ELSE selstore = base

\* the cells of the map
StoreCells(m) == {Pos(x, y) : x \in 0..(m.width - 1), y \in 0..(m.height - 1)}

C33_CommitSelection ==
    lastOp.op = "commitSelection" =>
        IF base.selection # NoSelection /\ base.selection.floating
        THEN LET sel == base.selection
                 target == [x |-> sel.bounds.x + sel.offsetX,
                            y |-> sel.bounds.y + sel.offsetY,
                            width |-> sel.bounds.width, height |-> sel.bounds.height]
                 payload(p) == IF isPointInBounds(p, target)
                               THEN sel.tiles[(p.y - target.y) * target.width
                                              + (p.x - target.x) + 1]
                               ELSE 0
             IN  /\ selstore = [base EXCEPT !.selection = NoSelection]
                 /\ map.width = strokeStart.width
                 /\ map.height = strokeStart.height
                 /\ \A p \in StoreCells(strokeStart) :
                        getTile(map, p.x, p.y, sel.layerId) =
                            IF payload(p) # 0 THEN payload(p)
                            ELSE getTile(strokeStart, p.x, p.y, sel.layerId)
        ELSE map = strokeStart /\ selstore = base

\* a moved floating selection has been committed and a non-zero payload cell
\* replaced another tile of the grid
C33_Witness ==
    /\ lastOp.op = "commitSelection"
    /\ base.selection # NoSelection
    /\ base.selection.floating
    /\ base.selection.offsetX # 0
    /\ selstore.selection = NoSelection
    /\ \E p \in StoreCells(strokeStart) :
           /\ getTile(map, p.x, p.y, "") # 0
           /\ getTile(map, p.x, p.y, "") # getTile(strokeStart, p.x, p.y, "")

\* C34: the clipboard is independent of the selection: clearSelection,
\* startDrag, updateDrag, endDrag, selectAll, moveSelection, commitSelection,
\* paste and grid edits leave it as it was; each paste with a filled
\* clipboard makes the selection a floating one at the target with offset
\* (0, 0) and the clipboard's payload, and changes no tile; paste with an
\* empty clipboard changes nothing.
C34_ClipboardIndependent ==
    /\ lastOp.op \notin {"init", "copy", "cut"} => selstore.clipboard = base.clipboard
    /\ lastOp.op = "paste" =>
           /\ map = strokeStart
           /\ IF base.clipboard # NoClipboard
              THEN selstore.selection =
                       [bounds |-> [x |-> lastOp.x, y |-> lastOp.y,
                                    width |-> base.clipboard.width,
                                    height |-> base.clipboard.height],
                        layerId |-> base.clipboard.sourceLayerId,
                        tiles |-> base.clipboard.tiles,
                        floating |-> TRUE, offsetX |-> 0, offsetY |-> 0]
              ELSE selstore = base

\* the clipboard is pasted after its selection was cleared and the grid
\* edited: the payload differs from the tiles under the target
C34_Witness ==
    /\ lastOp.op = "paste"
    /\ base.selection = NoSelection
    /\ selstore.selection.floating
    /\ selstore.selection.tiles = selstore.clipboard.tiles
    /\ selstore.selection.tiles #
           CopyTiles(map, lastOp.x, lastOp.y, selstore.clipboard.width,
                     selstore.clipboard.height, selstore.clipboard.sourceLayerId)

\* the inclusive rectangle spanned by the cells a and b
DragRect(a, b) ==
    [x |-> IF a.x < b.x THEN a.x ELSE b.x,
     y |-> IF a.y < b.y THEN a.y ELSE b.y,
     width |-> (IF a.x < b.x THEN b.x - a.x ELSE a.x - b.x) + 1,
     height |-> (IF a.y < b.y THEN b.y - a.y ELSE a.y - b.y) + 1]

\* C35: the marquee is a small state machine: startDrag clears an existing
\* non-floating selection and enters dragging; endDrag after startDrag(a) and
\* updateDrags ending at b leaves dragging and yields a fixed selection whose
\* bounds are the rectangle spanned by a and b and whose payload is the
\* layer's tiles under those bounds; getSelectionBounds gives the live drag
\* rectangle while dragging and bounds + offset otherwise.
C35_Marquee ==
    /\ lastOp.op = "startDrag" =>
           /\ selstore.isDragging
           /\ ~base.selection.floating => selstore.selection = NoSelection
           /\ calls = <<Pos(lastOp.x, lastOp.y)>>
    /\ (lastOp.op = "endDrag" /\ base.isDragging) =>
           LET rect == DragRect(calls[1], calls[Len(calls)])
           IN  /\ ~selstore.isDragging
               /\ selstore.selection # NoSelection
               /\ ~selstore.selection.floating
               /\ selstore.selection.offsetX = 0
               /\ selstore.selection.offsetY = 0
               /\ selstore.selection.bounds = rect
               /\ Len(selstore.selection.tiles) = rect.width * rect.height
               /\ \A p \in StoreCells(map) :
                      isPointInBounds(p, rect) =>
                          selstore.selection.tiles[(p.y - rect.y) * rect.width
                                                   + (p.x - rect.x) + 1]
                              = getTile(map, p.x, p.y, selstore.selection.layerId)
               /\ map = strokeStart
    /\ selstore.isDragging =>
           getSelectionBounds(selstore) = DragRect(calls[1], calls[Len(calls)])
    /\ (~selstore.isDragging /\ selstore.selection # NoSelection) =>
           /\ getSelectionBounds(selstore).x
                  = selstore.selection.bounds.x + selstore.selection.offsetX
           /\ getSelectionBounds(selstore).y
                  = selstore.selection.bounds.y + selstore.selection.offsetY
           /\ getSelectionBounds(selstore).width = selstore.selection.bounds.width
           /\ getSelectionBounds(selstore).height = selstore.selection.bounds.height

\* a drag that started at (1, 1), passed another cell and ended up and to the
\* left of its start has been ended over a tile
C35_Witness ==
    /\ lastOp.op = "endDrag"
    /\ base.isDragging
    /\ Len(calls) >= 3
    /\ calls[Len(calls)].x < calls[1].x
    /\ calls[Len(calls)].y < calls[1].y
    /\ selstore.selection.bounds = [x |-> 0, y |-> 0, width |-> 2, height |-> 2]
    /\ selstore.selection.tiles[1] # 0

----------------------------------------------------------------------------
(* Undo and redo on locked layers, checked under Spec (the editor) *)

LayerLocked(m, layerId) ==
    /\ FindLayer(m, layerId) # 0
    /\ m.layers[FindLayer(m, layerId)].locked

\* C36: undo and redo work on locked layers: after an undo every cell of the
\* undone action on a locked layer holds the change's old value, and after a
\* redo every cell of the redone action on a locked layer holds the change's
\* new value.
C36_UndoRedoOnLockedLayer ==
    /\ lastOp.op = "undo" =>
           \A i \in 1..Len(Undone.changes) :
               LET c == Undone.changes[i] IN
               LayerLocked(map, c.layerId) => getTile(map, c.x, c.y, c.layerId) = c.oldTileId
    /\ lastOp.op = "redo" =>
           \A i \in 1..Len(Last(history.past).changes) :
               LET c == Last(history.past).changes[i] IN
               LayerLocked(map, c.layerId) => getTile(map, c.x, c.y, c.layerId) = c.newTileId

\* a painted cell was emptied by an undo and painted again by a redo while
\* its layer was locked
C36_Witness ==
    /\ lastOp.op = "redo"
    /\ history.future = <<>>
    /\ \E i \in 1..Len(Last(history.past).changes) :
           LET c == Last(history.past).changes[i] IN
           /\ LayerLocked(map, c.layerId)
           /\ c.newTileId # c.oldTileId
           /\ getTile(map, c.x, c.y, c.layerId) = c.newTileId

----------------------------------------------------------------------------
(* SpecFillUndo: fills that follow brush strokes. The events of SpecFill,   *)
(* with start cells inside the map only (as the canvas reports them), and   *)
(* in addition the brush tool, pointer-up and Ctrl+Z, so that a fill can    *)
(* find a pending stroke action, committed actions and a redo stack. The    *)
(* observation is that of SpecFill.                                         *)

FillUndoStarts == {Pos(MIN_SIZE - 1, 0), Pos(MIN_SIZE - 2, 0), Pos(MIN_SIZE - 2, 1)}

FillUndoKeyTool ==
    \E toolName \in {"brush", "fill"} :
        /\ toolName # tool.activeTool
        /\ FillStep(keyTool(TheWorld, toolName), Op("setActiveTool"), <<>>)

FillUndoPointerDown ==
    \E start \in FillUndoStarts :
        FillStep(onPointerDown(TheWorld, start, getSelectedGlobalTileId(tool), now),
                 TileOp(tool.activeTool, start, getSelectedGlobalTileId(tool), ""),
                 IF tool.activeTool = "fill"
                 THEN floodFill(start.x, start.y, getSelectedGlobalTileId(tool), map,
                                getCurrentLayerId(map))
                 ELSE <<>>)

FillUndoPointerUp == FillStep(onPointerUp(TheWorld), Op("pointerUp"), <<>>)

FillUndoKeyUndo ==
    /\ canUndo(history)
    /\ FillStep(keyUndo(TheWorld), Op("undo"), <<>>)

NextFillUndo ==
    \/ FillSetWall
    \/ FillSelectTile
    \/ FillUndoKeyTool
    \/ FillUndoPointerDown
    \/ FillUndoPointerUp
    \/ FillUndoKeyUndo

SpecFillUndo == InitFill /\ [][NextFillUndo]_vars

\* the undo stack of the store h once its pending action is committed
FlushedPast(h) == IF HasPending(h) THEN Append(h.past, h.pendingAction) ELSE h.past

\* C37: a fill that changes at least one cell produces exactly one new
\* committed undo action, with one change per filled cell whose old value
\* is the region's original id, on top of the pending stroke action, which
\* is committed beneath it; a single performUndo restores all filled cells
\* and leaves the committed stroke applied.
C37_FillIsOneAction ==
    (lastOp.op = "fill" /\ calls # <<>>) =>
        LET act == Last(history.past)
            undone == performUndo(Ed(history, map))
            original == getTile(strokeStart, lastOp.x, lastOp.y, "")
        IN  /\ history.past = Append(FlushedPast(base), act)
            /\ history.pendingAction = NoAction
            /\ history.future = <<>>
            /\ act.type = "fill"
            /\ Len(act.changes) = Len(calls)
            /\ Cardinality(Returned) = Len(calls)
            /\ \A i \in 1..Len(calls) :
                   /\ act.changes[i] = TileChange(calls[i].x, calls[i].y,
                                                  getCurrentLayerId(strokeStart),
                                                  original, lastOp.v)
                   /\ getTile(strokeStart, calls[i].x, calls[i].y, "") = original
                   /\ getTile(map, calls[i].x, calls[i].y, "") = lastOp.v
            /\ undone.m = strokeStart
            /\ undone.h.past = FlushedPast(base)
            /\ undone.h.future = <<act>>
            /\ undone.h.pendingAction = NoAction

\* a fill of several cells found a pending brush stroke, whose painted cell
\* it did not fill
C37_Witness ==
    /\ lastOp.op = "fill"
    /\ Len(calls) > 1
    /\ HasPending(base)
    /\ Len(history.past) = Len(base.past) + 2
    /\ history.past[Len(history.past) - 1].type = "brush"
    /\ \E i \in 1..Len(base.pendingAction.changes) :
           LET c == base.pendingAction.changes[i] IN
           /\ Pos(c.x, c.y) \notin Returned
           /\ getTile(performUndo(Ed(history, map)).m, c.x, c.y, "") = c.newTileId
           /\ c.newTileId # 0

----------------------------------------------------------------------------
(* SpecCapClock: the operations of SpecCap and the clock, so that           *)
(* recordChange also finds a pending action older than the coalescing       *)
(* window, commits it and opens another.                                    *)

NextCapClock ==
    \/ NextCap
    \/ Tick

SpecCapClock == InitHist /\ [][NextCapClock]_vars

\* C38: the undo stack and the redo stack together never hold more than
\* MAX_HISTORY_SIZE actions; a redo moves the top of the redo stack onto the
\* undo stack, which stays within MAX_HISTORY_SIZE, and no action is lost.
C38_PastPlusFutureWithinCap ==
    /\ Len(history.past) + Len(history.future) <= MAX_HISTORY_SIZE
    /\ canRedo(history) =>
           LET r == redo(history) IN
           /\ r.action = Last(history.future)
           /\ r.h.past = Append(history.past, r.action)
           /\ r.h.future = Front(history.future)
           /\ Len(r.h.past) <= MAX_HISTORY_SIZE
           /\ r.h.pendingAction = history.pendingAction

\* a full undo stack after a redo, with actions left to redo
C38_Witness ==
    /\ lastOp.op = "redo"
    /\ Len(history.past) + Len(history.future) = MAX_HISTORY_SIZE
    /\ Len(history.past) > 1
    /\ Len(history.future) > 1

----------------------------------------------------------------------------
(* Tool switches and the pending action, checked under Spec (the editor) *)

\* C39: a pending action is committed on a tool switch: in the state after
\* the active tool has changed there is no pending action (it has been moved
\* onto the undo stack).
C39_ToolSwitchCommitsPending ==
    lastOp.op = "setActiveTool" => history.pendingAction = NoAction

----------------------------------------------------------------------------
(* The number of cells under a square brush, checked under SpecBrush *)

\* every cell the loops of getBrushPositions visit lies inside the map
FootprintInside(m, center, size) ==
    /\ center.x - size \div 2 >= 0
    /\ center.x + size \div 2 < m.width
    /\ center.y - size \div 2 >= 0
    /\ center.y + size \div 2 < m.height

\* C40: a square brush of size s whose footprint lies entirely inside the
\* map covers exactly s * s cells, for even and for odd s.
C40_SquareBrushCoversSizeSquared ==
    (/\ lastOp.op = "getBrushPositions"
     /\ lastOp.settings.shape = "square"
     /\ FootprintInside(map, lastOp.center, lastOp.settings.size))
        => Len(calls) = lastOp.settings.size * lastOp.settings.size

====
